---------------------------- MODULE Spec2Model ----------------------------
(***************************************************************************)
(* Stash: the client-side stores (auth, items, collections), the shared    *)
(* api client, the root layout and the Collections, Add-Item and Item      *)
(* Detail screens, as state machines.  Every awaited HTTP request is a     *)
(* record in flight; the handler's code after the await runs when the      *)
(* request settles.  Strings that the code trims, lower-cases or compares  *)
(* are sequences of one-character strings.                                 *)
(***************************************************************************)
EXTENDS Integers, Sequences, FiniteSets, TLC

(***************************** bounds **************************************)
MaxCollIds == 6      \* the largest collection id the backend hands out
MaxItemIds == 2      \* the largest item id the backend hands out
MaxCollInFlight == 1 \* requests of the collections store in flight at once
MaxItemInFlight == 2 \* requests of the items store in flight at once
MaxAddInFlight == 1 \* the same in the specs of the other screens
MaxAuthInFlight == 1 \* requests of the auth store in flight at once
MaxDetailInFlight == 2 \* requests of the item detail screen in flight at once
MaxCsInFlight == 2 \* requests of the collection screen in flight at once
MaxTagInFlight == 1 \* requests of the detail screen in flight in the tags spec
MaxProInFlight == 2 \* requests of the profile, search and upgrade screens in flight
MaxObInFlight == 2 \* requests of the onboarding screen in flight at once

(************************ program constants ********************************)
FreeCollectionLimit == 5     \* CollectionsScreen: maxCollections for non-pro
DocumentedFreeLimit == 10    \* PRD, Plan Limits / Free Plan: Max 10 collections

(***************************** strings *************************************)
Empty == << >>

isSpace(c) == c = " "

toLowerChar(c) ==
  CASE c = "W" -> "w"
    [] c = "A" -> "a"
    [] c = "T" -> "t"
    [] OTHER -> c

\* String.prototype.toLowerCase
toLowerCase(s) == [i \in DOMAIN s |-> toLowerChar(s[i])]

RECURSIVE trimStart(_)
trimStart(s) ==
  IF s = Empty THEN Empty
  ELSE IF isSpace(Head(s)) THEN trimStart(Tail(s)) ELSE s

RECURSIVE trimEnd(_)
trimEnd(s) ==
  IF s = Empty THEN Empty
  ELSE IF isSpace(s[Len(s)]) THEN trimEnd(SubSeq(s, 1, Len(s) - 1)) ELSE s

\* String.prototype.trim
trim(s) == trimEnd(trimStart(s))

\* Array.prototype.includes
includes(seq, x) == \E i \in DOMAIN seq : seq[i] = x

\* Array.prototype.filter with the predicate "element # x"
without(seq, x) == SelectSeq(seq, LAMBDA e : e # x)

Range(seq) == {seq[i] : i \in DOMAIN seq}

(**************************** value domains ********************************)
Null == "null"
Tokens == {"t1", "t2"}

\* User (types): the fields the screens read; NoUser is the store's null user
NoUser == [id |-> Null, plan_type |-> Null]
FreeUser == [id |-> "u1", plan_type |-> "free"]
ProUser == [id |-> "u1", plan_type |-> "pro"]
Users == {FreeUser, ProUser}

\* what the user can type into a name field
NameInputs == { <<" ">>, <<"w", " ">> }

\* Collection (types): id and name
Collection(id, name) == [id |-> id, name |-> name]

\* SavedItem (types): id, tags and the collection ids it belongs to
SavedItem(id, tags, cols) == [id |-> id, tags |-> tags, collections |-> cols]

\* useState<SavedItem | null>(null)
NoItem == SavedItem(0, Empty, Empty)

\* useState<{collection_name, reason} | null>(null)
NoSuggestion == [collection_name |-> Empty]

VARIABLES
  \* auth store
  user, token, isAuthenticated, authLoading, hasHydrated,
  \* persisted 'auth-storage' entry, api client token, root layout
  storage, authToken, isInitializing,
  \* the [hasHydrated, token] the root layout's effect last ran with
  effectDeps,
  \* the access_token of the last successful login/register of this session
  \* (Null once the session ends)
  issuedToken,
  \* the message of the last Error that login / register threw
  errorMessage,
  \* requests of the auth store and of the api client in flight
  authNet,
  \* collections store and its requests in flight
  collections, collLoading, collNet,
  \* Collections screen
  showModal, newName, editingId, isSubmitting, confirmDelete,
  \* items store and its requests in flight
  items, itemsLoading, itemNet,
  \* Add-Item screen
  url, tags, tagInput, addSelected, isSaving, isExtracting,
  \* item detail screen: its state hooks and its requests in flight
  item, detailLoading, editedTags, selectedCollections,
  aiSummary, extractedIdeas, smartTags, actionItems, collectionSuggestion,
  isGeneratingSummary, isExtractingIdeas, isGeneratingTags, isGeneratingActions,
  detailNet,
  \* the smart tags whose apply request succeeded
  approved,
  \* collection screen: its items, state hooks, requests in flight, and the item
  \* the dialog on screen is about
  csItems, csLoading, deletingItemId, csNet, alertItem,
  \* profile, search and upgrade screens: their state hooks, their requests in
  \* flight, and the plan the backend holds for the user
  profileMounted, planInfo, isExporting, showAdvancedOptions, isSearching, upgradeLoading, proNet, srvPlan,
  \* onboarding screen: which of the two revisions in onboarding.tsx is built,
  \* its state hooks, its requests in flight, and the route on screen
  revision, currentStep, selectedCategory, obLoading, obNet, route,
  \* the items store's query settings, and whether the newest fetch has
  \* delivered its response while an older fetch was still in flight
  sortOrder, platformFilter, latestDelivered,
  \* search screen: the field's text, the list shown, and whether a search ran
  query, results, hasSearched,
  \* the alert dialog on screen, and whether router.back() has run
  alert, wentBack,
  \* backend database
  srvItems, srvColls, srvNextItem, srvNextColl,
  \* for each item this run created: the tag list the Add-Item screen held
  \* when its save was pressed
  createdTags,
  \* the handler step that ran last (typing into a text field is none)
  lastOp

authVars == <<user, token, isAuthenticated, authLoading, hasHydrated,
              storage, authToken, isInitializing, effectDeps, authNet,
              issuedToken, errorMessage>>
collStoreVars == <<collections, collLoading, collNet>>
collScreenVars == <<showModal, newName, editingId, isSubmitting, confirmDelete>>
itemStoreVars == <<items, itemsLoading, itemNet>>
addVars == <<url, tags, tagInput, addSelected, isSaving, isExtracting>>
detailVars == <<item, detailLoading, editedTags, selectedCollections,
                aiSummary, extractedIdeas, smartTags, actionItems,
                collectionSuggestion, isGeneratingSummary, isExtractingIdeas,
                isGeneratingTags, isGeneratingActions, detailNet, approved>>
csVars == <<csItems, csLoading, deletingItemId, csNet, alertItem>>
proVars == <<profileMounted, planInfo, isExporting, showAdvancedOptions, isSearching, upgradeLoading, proNet, srvPlan>>
onbVars == <<revision, currentStep, selectedCategory, obLoading, obNet, route>>
queryVars == <<sortOrder, platformFilter, latestDelivered>>
searchVars == <<query, results, hasSearched>>
uiVars == <<alert, wentBack>>
srvVars == <<srvItems, srvColls, srvNextItem, srvNextColl>>

vars == <<authVars, collStoreVars, collScreenVars, itemStoreVars, addVars,
          detailVars, csVars,
          proVars, onbVars, queryVars, searchVars, uiVars, srvVars, createdTags, lastOp>>

\* what the handlers of one screen or store never touch
collForeign == <<searchVars, queryVars, onbVars, proVars, csVars, authVars, itemStoreVars, addVars, detailVars, createdTags>>
queryForeign == <<searchVars, onbVars, proVars, csVars, authVars, collStoreVars, collScreenVars, detailVars>>
itemForeign == <<queryVars, queryForeign>>
authForeign == <<searchVars, queryVars, onbVars, proVars, csVars, collStoreVars, collScreenVars, itemStoreVars, addVars,
                 detailVars, createdTags, srvVars>>
detailForeign == <<searchVars, queryVars, onbVars, proVars, csVars, authVars, collScreenVars, itemStoreVars, addVars,
                   createdTags>>
\* the profile, search and upgrade screens set the auth store's user
searchForeign == <<queryVars, onbVars, csVars, collStoreVars, collScreenVars, itemStoreVars, addVars,
               detailVars, createdTags, srvVars>>
proForeign == <<searchVars, searchForeign>>
csForeign == <<searchVars, queryVars, onbVars, proVars, authVars, collStoreVars, collScreenVars, addVars, detailVars,
               createdTags>>

\* the smallest request id not in flight in net
FreshRid(net) == CHOOSE n \in 1..(Cardinality(net) + 1) :
                   /\ n \notin {r.rid : r \in net}
                   /\ \A m \in 1..(n - 1) : m \in {r.rid : r \in net}

CanSend(net, max) == Cardinality(net) < max

NoAlert == "none"

\* a request record of the collections store: op, target id, name sent, and
\* the Authorization header getHeaders(token) built
CollReq(rid, op, id, name, auth) ==
  [rid |-> rid, op |-> op, id |-> id, name |-> name, auth |-> auth]

(************************ backend (collections) ****************************)
\* POST /collections: a new collection under a fresh id
srvCreateCollection(db, id, name) == Append(db, Collection(id, name))
\* PUT /collections/{id}: rename
srvRenameCollection(db, id, name) ==
  [i \in DOMAIN db |-> IF db[i].id = id THEN Collection(id, name) ELSE db[i]]
\* DELETE /collections/{id}
srvDeleteCollection(db, id) == SelectSeq(db, LAMBDA c : c.id # id)

(************************** collections store ******************************)
\* fetchCollections, before the await
fetchCollections ==
  /\ token # Null
  /\ alert = NoAlert
  /\ CanSend(collNet, MaxCollInFlight)
  /\ collLoading' = TRUE
  /\ collNet' = collNet \cup
                  {CollReq(FreshRid(collNet), "fetch", 0, Empty, token)}
  /\ lastOp' = "fetchCollections"
  /\ UNCHANGED <<collForeign, collections, collScreenVars, uiVars, srvVars>>

\* fetchCollections, the response arrived
fetchCollectionsResolved ==
  \E r \in collNet :
    /\ r.op = "fetch"
    /\ collections' = srvColls
    /\ collLoading' = FALSE
    /\ collNet' = collNet \ {r}
    /\ lastOp' = "fetchCollectionsResolved"
    /\ UNCHANGED <<collForeign, collScreenVars, uiVars, srvVars>>

\* fetchCollections, the request failed (the screen's .catch logs it)
fetchCollectionsRejected ==
  \E r \in collNet :
    /\ r.op = "fetch"
    /\ collLoading' = FALSE
    /\ collNet' = collNet \ {r}
    /\ lastOp' = "fetchCollectionsRejected"
    /\ UNCHANGED <<collForeign, collections, collScreenVars, uiVars, srvVars>>

\* addCollection's set(): [...state.collections, newCollection]
addCollectionSet(cols, newCollection) == Append(cols, newCollection)

\* updateCollection's set(): map, replacing the entry with that id
updateCollectionSet(cols, id, data) ==
  [i \in DOMAIN cols |-> IF cols[i].id = id THEN data ELSE cols[i]]

\* a filter that keeps the deleted entry and drops the others
deleteCollectionSetInverted(cols, id) == SelectSeq(cols, LAMBDA col : col.id = id)

\* deleteCollection's set(): filter(col => col.id !== id)
deleteCollectionSet(cols, id) == SelectSeq(cols, LAMBDA col : col.id # id)

(*************************** Collections screen ****************************)
\* collections.length >= maxCollections, maxCollections being Infinity for
\* a pro user and FreeCollectionLimit otherwise
reachedMaxCollections(n, u) ==
  IF u.plan_type = "pro" THEN FALSE ELSE n >= FreeCollectionLimit

\* handleOpenModal() without a collection: the create dialog
handleOpenModalNew ==
  /\ alert = NoAlert
  /\ ~showModal
  /\ IF reachedMaxCollections(Len(collections), user)
       THEN /\ alert' = "Collection Limit Reached"
            /\ UNCHANGED <<showModal, newName, editingId>>
       ELSE /\ editingId' = 0
            /\ newName' = Empty
            /\ showModal' = TRUE
            /\ UNCHANGED alert
  /\ lastOp' = "handleOpenModalNew"
  /\ UNCHANGED <<collForeign, collStoreVars, isSubmitting, confirmDelete,
                 wentBack, srvVars>>

\* handleOpenModal(collection): the edit dialog
handleOpenModalEdit ==
  \E i \in DOMAIN collections :
    /\ alert = NoAlert
    /\ ~showModal
    /\ editingId' = collections[i].id
    /\ newName' = collections[i].name
    /\ showModal' = TRUE
    /\ lastOp' = "handleOpenModalEdit"
    /\ UNCHANGED <<collForeign, collStoreVars, isSubmitting, confirmDelete,
                   uiVars, srvVars>>

\* onChangeText={setNewName}
setNewName ==
  \E s \in NameInputs :
    /\ alert = NoAlert
    /\ showModal
    /\ newName' = s
    /\ UNCHANGED lastOp
    /\ UNCHANGED <<collForeign, collStoreVars, showModal, editingId, isSubmitting,
                   confirmDelete, uiVars, srvVars>>

\* the dialog's Cancel / close button: setShowModal(false)
closeModal ==
  /\ alert = NoAlert
  /\ showModal
  /\ showModal' = FALSE
  /\ lastOp' = "closeModal"
  /\ UNCHANGED <<collForeign, collStoreVars, newName, editingId, isSubmitting,
                 confirmDelete, uiVars, srvVars>>

\* handleSubmit, up to the await of addCollection / updateCollection
handleSubmit ==
  /\ alert = NoAlert
  /\ showModal
  /\ ~isSubmitting
  /\ IF trim(newName) = Empty \/ token = Null
       THEN /\ alert' = "Error"
            /\ UNCHANGED <<isSubmitting, collNet>>
       ELSE /\ CanSend(collNet, MaxCollInFlight)
            /\ isSubmitting' = TRUE
            /\ collNet' = collNet \cup
                 {CollReq(FreshRid(collNet),
                          IF editingId # 0 THEN "update" ELSE "add",
                          editingId, trim(newName), token)}
            /\ UNCHANGED alert
  /\ lastOp' = "handleSubmit"
  /\ UNCHANGED <<collForeign, collections, collLoading, showModal, newName,
                 editingId, confirmDelete, wentBack, srvVars>>

\* addCollection resolved, then handleSubmit after the await
addCollectionResolved ==
  \E r \in collNet :
    /\ r.op = "add"
    /\ srvNextColl <= MaxCollIds
    /\ srvColls' = srvCreateCollection(srvColls, srvNextColl, r.name)
    /\ srvNextColl' = srvNextColl + 1
    /\ collections' = addCollectionSet(collections, Collection(srvNextColl, r.name))
    /\ showModal' = FALSE
    /\ newName' = Empty
    /\ editingId' = 0
    /\ isSubmitting' = FALSE
    /\ collNet' = collNet \ {r}
    /\ lastOp' = "addCollectionResolved"
    /\ UNCHANGED <<collForeign, collLoading, confirmDelete, uiVars,
                   srvItems, srvNextItem>>

\* updateCollection resolved, then handleSubmit after the await
updateCollectionResolved ==
  \E r \in collNet :
    /\ r.op = "update"
    /\ \E i \in DOMAIN srvColls : srvColls[i].id = r.id
    /\ srvColls' = srvRenameCollection(srvColls, r.id, r.name)
    /\ collections' = updateCollectionSet(collections, r.id, Collection(r.id, r.name))
    /\ showModal' = FALSE
    /\ newName' = Empty
    /\ editingId' = 0
    /\ isSubmitting' = FALSE
    /\ collNet' = collNet \ {r}
    /\ lastOp' = "updateCollectionResolved"
    /\ UNCHANGED <<collForeign, collLoading, confirmDelete, uiVars,
                   srvItems, srvNextItem, srvNextColl>>

\* addCollection / updateCollection rejected: handleSubmit's catch and finally
submitRejected ==
  \E r \in collNet :
    /\ r.op \in {"add", "update"}
    /\ alert' = "Error"
    /\ confirmDelete' = 0
    /\ isSubmitting' = FALSE
    /\ collNet' = collNet \ {r}
    /\ lastOp' = "submitRejected"
    /\ UNCHANGED <<collForeign, collections, collLoading, showModal, newName,
                   editingId, wentBack, srvVars>>

\* handleDelete: the confirmation dialog
handleDelete ==
  \E i \in DOMAIN collections :
    /\ alert = NoAlert
    /\ ~showModal
    /\ alert' = "Delete Collection"
    /\ confirmDelete' = collections[i].id
    /\ lastOp' = "handleDelete"
    /\ UNCHANGED <<collForeign, collStoreVars, showModal, newName, editingId,
                   isSubmitting, wentBack, srvVars>>

\* the dialog's Cancel button
handleDeleteCancel ==
  /\ alert = "Delete Collection"
  /\ alert' = NoAlert
  /\ confirmDelete' = 0
  /\ lastOp' = "handleDeleteCancel"
  /\ UNCHANGED <<collForeign, collStoreVars, showModal, newName, editingId,
                 isSubmitting, wentBack, srvVars>>

\* the dialog's Delete button, up to the await of deleteCollection
handleDeleteConfirm ==
  /\ alert = "Delete Collection"
  /\ alert' = NoAlert
  /\ confirmDelete' = 0
  /\ IF token = Null
       THEN UNCHANGED collNet
       ELSE /\ CanSend(collNet, MaxCollInFlight)
            /\ collNet' = collNet \cup
                 {CollReq(FreshRid(collNet), "delete", confirmDelete, Empty, token)}
  /\ lastOp' = "handleDeleteConfirm"
  /\ UNCHANGED <<collForeign, collections, collLoading, showModal, newName,
                 editingId, isSubmitting, wentBack, srvVars>>

\* deleteCollection resolved
deleteCollectionResolved ==
  \E r \in collNet :
    /\ r.op = "delete"
    /\ srvColls' = srvDeleteCollection(srvColls, r.id)
    /\ collections' = deleteCollectionSet(collections, r.id)
    /\ collNet' = collNet \ {r}
    /\ lastOp' = "deleteCollectionResolved"
    /\ UNCHANGED <<collForeign, collLoading, collScreenVars, uiVars,
                   srvItems, srvNextItem, srvNextColl>>

\* deleteCollection rejected: the onPress catch
deleteCollectionRejected ==
  \E r \in collNet :
    /\ r.op = "delete"
    /\ alert' = "Error"
    /\ confirmDelete' = 0
    /\ collNet' = collNet \ {r}
    /\ lastOp' = "deleteCollectionRejected"
    /\ UNCHANGED <<collForeign, collections, collLoading, showModal, newName,
                   editingId, isSubmitting, wentBack, srvVars>>

\* the OK button of a plain alert
dismissAlert ==
  /\ alert \notin {NoAlert, "Delete Collection", "Sign Out", "Item Options",
                   "Delete Save", "Remove from Collection", "Delete Item",
                   "Your 14-day trial has started!"}
  /\ alert' = NoAlert
  /\ lastOp' = "dismissAlert"
  /\ UNCHANGED <<collForeign, collStoreVars, collScreenVars, wentBack, srvVars>>

(****************************** api client *********************************)
NoHeader == "none"

\* the request interceptor: Authorization is set only if authToken is set
requestInterceptor(tok) == IF tok # Null THEN tok ELSE NoHeader

(******************************* items store *******************************)
\* what the user can type into the tag field, and into the URL field
TagInputs == { <<" ">>, <<" ", "A">>, <<"t">> }
UrlInputs == { <<" ">>, <<"u">> }
\* the suggested_tags a metadata response can carry
SuggestedTags == { Empty, <<(<<"t">>)>> }

NoBody == [tags |-> Empty, collections |-> Empty]

\* the store's sortOrder, and the platforms of the inbox's filter chips
\* ('All' is null)
SortOrders == {"newest", "oldest"}
Platforms == {Null, "YouTube"}

\* the query string of a request other than fetchItems' own
NoParams == [sort |-> "newest", platform |-> Null]

\* no response of the newest fetch has been delivered ahead of an older one
NoResponse == [ok |-> FALSE, data |-> Empty]

\* a request record of the items store: op, target id, JSON body, the
\* Authorization header, and the response once the backend has answered
ItemReq(rid, op, id, body, auth, held) ==
  [rid |-> rid, op |-> op, id |-> id, body |-> body, auth |-> auth,
   st |-> "sent", resp |-> Empty, held |-> held,
   params |-> NoParams, latest |-> FALSE]

\* the platform tag the backend gave an item: the seeded item is a YouTube
\* link, what the URL field can hold is a Web link
srvPlatform(it) == IF it.id = 1 THEN "YouTube" ELSE "Web"

RECURSIVE reversed(_)
reversed(seq) ==
  IF seq = Empty THEN Empty ELSE Append(reversed(Tail(seq)), Head(seq))

\* GET /items?sort=&platform=: the backend keeps the newest item first
srvQuery(its, params) ==
  LET kept == SelectSeq(its, LAMBDA it :
                params.platform = Null \/ srvPlatform(it) = params.platform)
  IN IF params.sort = "oldest" THEN reversed(kept) ELSE kept

\* POST /items: the backend stores the item it receives under a fresh id
srvCreateItem(id, body) == SavedItem(id, body.tags, body.collections)

\* the backend answers GET /items with what it holds
srvAnswerFetchItems ==
  \E r \in itemNet :
    /\ r.st = "sent" /\ r.op = "fetch"
    /\ itemNet' = (itemNet \ {r}) \cup
         {[r EXCEPT !.st = "ok", !.resp = srvQuery(srvItems, r.params)]}
    /\ lastOp' = "srvAnswerFetchItems"
    /\ UNCHANGED <<itemForeign, createdTags, items, itemsLoading, addVars, uiVars, srvVars>>

\* the backend answers POST /items: stores the item, returns it
srvAnswerAddItem ==
  \E r \in itemNet :
    /\ r.st = "sent" /\ r.op = "add"
    /\ srvNextItem <= MaxItemIds
    /\ LET it == srvCreateItem(srvNextItem, r.body) IN
         /\ srvItems' = <<it>> \o srvItems
         /\ itemNet' = (itemNet \ {r}) \cup
                         {[r EXCEPT !.st = "ok", !.resp = <<it>>]}
    /\ srvNextItem' = srvNextItem + 1
    /\ createdTags' = createdTags \cup {[id |-> srvNextItem, tags |-> r.held]}
    /\ lastOp' = "srvAnswerAddItem"
    /\ UNCHANGED <<itemForeign, items, itemsLoading, addVars, uiVars,
                   srvColls, srvNextColl>>

\* the backend answers POST /extract-metadata
srvAnswerExtract ==
  \E r \in itemNet, sugg \in SuggestedTags :
    /\ r.st = "sent" /\ r.op = "extract"
    /\ itemNet' = (itemNet \ {r}) \cup
         {[r EXCEPT !.st = "ok", !.resp = <<SavedItem(0, sugg, Empty)>>]}
    /\ lastOp' = "srvAnswerExtract"
    /\ UNCHANGED <<itemForeign, createdTags, items, itemsLoading, addVars, uiVars, srvVars>>

\* the backend rejects a request of the items store (401, 403, limit, ...)
srvRejectItems ==
  \E r \in itemNet :
    /\ r.st = "sent"
    /\ itemNet' = (itemNet \ {r}) \cup {[r EXCEPT !.st = "fail"]}
    /\ lastOp' = "srvRejectItems"
    /\ UNCHANGED <<itemForeign, createdTags, items, itemsLoading, addVars, uiVars, srvVars>>

\* fetchItems up to the await, sort and platform being the sortOrder and
\* platformFilter that get() returns: the request becomes the most recently
\* issued one
fetchItemsSend(sort, platform) ==
  /\ alert = NoAlert
  /\ CanSend(itemNet, MaxItemInFlight)
  /\ itemsLoading' = TRUE
  /\ itemNet' = {[r EXCEPT !.latest = FALSE] : r \in itemNet} \cup
       {[ItemReq(FreshRid(itemNet), "fetch", 0, NoBody,
                 requestInterceptor(authToken), Empty)
           EXCEPT !.params = [sort |-> sort, platform |-> platform],
                  !.latest = TRUE]}
  /\ latestDelivered' = NoResponse

\* fetchItems, before the await
fetchItems ==
  /\ fetchItemsSend(sortOrder, platformFilter)
  /\ lastOp' = "fetchItems"
  /\ UNCHANGED <<queryForeign, sortOrder, platformFilter, createdTags, items,
                 addVars, uiVars, srvVars>>

\* fetchItems after the await: set({ items: response.data, isLoading: false })
fetchItemsResolved ==
  \E r \in itemNet :
    /\ r.op = "fetch" /\ r.st = "ok"
    /\ items' = r.resp
    /\ itemsLoading' = FALSE
    /\ latestDelivered' =
         IF r.latest /\ (\E o \in itemNet \ {r} : o.op = "fetch")
           THEN [ok |-> TRUE, data |-> r.resp] ELSE latestDelivered
    /\ itemNet' = itemNet \ {r}
    /\ lastOp' = "fetchItemsResolved"
    /\ UNCHANGED <<queryForeign, sortOrder, platformFilter, createdTags,
                   addVars, uiVars, srvVars>>

\* fetchItems, the catch: set({ isLoading: false }); throw
fetchItemsRejected ==
  \E r \in itemNet :
    /\ r.op = "fetch" /\ r.st = "fail"
    /\ itemsLoading' = FALSE
    /\ itemNet' = itemNet \ {r}
    /\ lastOp' = "fetchItemsRejected"
    /\ UNCHANGED <<itemForeign, createdTags, items, addVars, uiVars, srvVars>>

\* addItem's set(): [newItem, ...state.items]
addItemSet(its, newItem) == <<newItem>> \o its


(****************************** Add-Item screen ****************************)
\* the URL field is filled in (setUrl), then handleExtractMetadata runs up to
\* the await of extractMetadata
handleExtractMetadata ==
  \E u \in UrlInputs :
  /\ alert = NoAlert /\ ~wentBack
  /\ ~isExtracting
  /\ url' = u
  /\ IF trim(u) = Empty
       THEN /\ alert' = "Error"
            /\ UNCHANGED <<isExtracting, itemNet>>
       ELSE /\ CanSend(itemNet, MaxItemInFlight)
            /\ isExtracting' = TRUE
            /\ itemNet' = itemNet \cup
                 {ItemReq(FreshRid(itemNet), "extract", 0, NoBody,
                          requestInterceptor(authToken), Empty)}
            /\ UNCHANGED alert
  /\ lastOp' = "handleExtractMetadata"
  /\ UNCHANGED <<itemForeign, createdTags, items, itemsLoading, tags,
                 tagInput, addSelected, isSaving, wentBack, srvVars>>

\* handleExtractMetadata after the await: setTags(result.suggested_tags)
extractMetadataResolved ==
  \E r \in itemNet :
    /\ r.op = "extract" /\ r.st = "ok"
    /\ tags' = r.resp[1].tags
    /\ isExtracting' = FALSE
    /\ itemNet' = itemNet \ {r}
    /\ lastOp' = "extractMetadataResolved"
    /\ UNCHANGED <<itemForeign, createdTags, items, itemsLoading, url, tagInput,
                   addSelected, isSaving, uiVars, srvVars>>

\* handleExtractMetadata, the catch and finally
extractMetadataRejected ==
  \E r \in itemNet :
    /\ r.op = "extract" /\ r.st = "fail"
    /\ alert' = "Note"
    /\ isExtracting' = FALSE
    /\ itemNet' = itemNet \ {r}
    /\ lastOp' = "extractMetadataRejected"
    /\ UNCHANGED <<itemForeign, createdTags, items, itemsLoading, url, tags,
                   tagInput, addSelected, isSaving, wentBack, srvVars>>

\* a handleAddTag that does not look the tag up in the list
addTagUnchecked(tgs, input) ==
  LET tag == toLowerCase(trim(input)) IN
    IF tag # Empty THEN Append(tgs, tag) ELSE tgs

\* the tag list after handleAddTag
addTag(tgs, input) ==
  LET tag == toLowerCase(trim(input)) IN
    IF tag # Empty /\ ~includes(tgs, tag) THEN Append(tgs, tag) ELSE tgs

\* the tag field is filled in (setTagInput), then handleAddTag runs
handleAddTag ==
  \E input \in TagInputs :
  /\ alert = NoAlert /\ ~wentBack
  /\ tags' = addTag(tags, input)
  /\ tagInput' = Empty
  /\ lastOp' = "handleAddTag"
  /\ UNCHANGED <<itemForeign, createdTags, itemStoreVars, url, addSelected,
                 isSaving, isExtracting, uiVars, srvVars>>

\* handleRemoveTag
handleRemoveTag ==
  \E t \in Range(tags) :
    /\ alert = NoAlert /\ ~wentBack
    /\ tags' = without(tags, t)
    /\ lastOp' = "handleRemoveTag"
    /\ UNCHANGED <<itemForeign, createdTags, itemStoreVars, url, tagInput,
                   addSelected, isSaving, isExtracting, uiVars, srvVars>>

\* the selection after toggleCollection
toggled(sel, cid) == IF includes(sel, cid) THEN without(sel, cid) ELSE Append(sel, cid)

\* toggleCollection
toggleCollection ==
  \E c \in Range(collections) :
    /\ alert = NoAlert /\ ~wentBack
    /\ addSelected' = toggled(addSelected, c.id)
    /\ lastOp' = "toggleCollection"
    /\ UNCHANGED <<itemForeign, createdTags, itemStoreVars, url, tags, tagInput,
                   isSaving, isExtracting, uiVars, srvVars>>

\* a request body that leaves the tags out
handleSaveBodyNoTags(tgs, sel) == [tags |-> Empty, collections |-> sel]

\* the data handleSave passes to addItem
handleSaveBody(tgs, sel) == [tags |-> tgs, collections |-> sel]

\* the URL field is filled in (setUrl), then handleSave runs up to the await
\* of addItem
handleSave ==
  \E u \in UrlInputs :
  /\ alert = NoAlert /\ ~wentBack
  /\ ~isSaving
  /\ url' = u
  /\ IF trim(u) = Empty
       THEN /\ alert' = "Error"
            /\ UNCHANGED <<isSaving, itemNet>>
       ELSE /\ CanSend(itemNet, MaxItemInFlight)
            /\ isSaving' = TRUE
            /\ itemNet' = itemNet \cup
                 {ItemReq(FreshRid(itemNet), "add", 0,
                          handleSaveBody(tags, addSelected),
                          requestInterceptor(authToken), tags)}
            /\ UNCHANGED alert
  /\ lastOp' = "handleSave"
  /\ UNCHANGED <<itemForeign, createdTags, items, itemsLoading, tags,
                 tagInput, addSelected, isExtracting, wentBack, srvVars>>

\* addItem resolved, then handleSave after the await: router.back()
addItemResolved ==
  \E r \in itemNet :
    /\ r.op = "add" /\ r.st = "ok"
    /\ items' = addItemSet(items, r.resp[1])
    /\ wentBack' = TRUE
    /\ isSaving' = FALSE
    /\ itemNet' = itemNet \ {r}
    /\ lastOp' = "addItemResolved"
    /\ UNCHANGED <<itemForeign, createdTags, itemsLoading, url, tags, tagInput,
                   addSelected, isExtracting, alert, srvVars>>

\* an addItem that swallows the error: handleSave goes on to router.back()
addItemRejectedSwallowed ==
  \E r \in itemNet :
    /\ r.op = "add" /\ r.st = "fail"
    /\ wentBack' = TRUE
    /\ isSaving' = FALSE
    /\ itemNet' = itemNet \ {r}
    /\ lastOp' = "addItemRejected"
    /\ UNCHANGED <<itemForeign, createdTags, items, itemsLoading, url, tags,
                   tagInput, addSelected, isExtracting, alert, srvVars>>

\* addItem rejected and rethrown: handleSave's catch and finally
addItemRejected ==
  \E r \in itemNet :
    /\ r.op = "add" /\ r.st = "fail"
    /\ alert' = "Error"
    /\ isSaving' = FALSE
    /\ itemNet' = itemNet \ {r}
    /\ lastOp' = "addItemRejected"
    /\ UNCHANGED <<itemForeign, createdTags, items, itemsLoading, url, tags,
                   tagInput, addSelected, isExtracting, wentBack, srvVars>>

\* router.push('/add-item'): the screen mounts anew
mountAddItem ==
  /\ alert = NoAlert /\ wentBack
  /\ url' = Empty /\ tags' = Empty /\ tagInput' = Empty /\ addSelected' = Empty
  /\ isSaving' = FALSE /\ isExtracting' = FALSE
  /\ wentBack' = FALSE
  /\ lastOp' = "mountAddItem"
  /\ UNCHANGED <<itemForeign, createdTags, itemStoreVars, alert, srvVars>>

(**************************** item detail screen ****************************)
\* what the language model behind the backend answers
SummaryResponses == { Empty, <<"s">> }
IdeasResponses == { <<"i">> }
SmartTagResponses == { <<[name |-> <<"t">>], [name |-> <<"b">>]>> }
ActionItemResponses == { <<"x">> }
SuggestionResponses == { [collection_name |-> <<"W">>],
                         [collection_name |-> <<"T">>] }

\* the route parameter id
DetailId == 1

\* a request of the screen; applySmartTag reads, after its await, the
\* editedTags and smartTags of the render that created it (the other
\* handlers read no state after their await)
DetailReq(rid, op, tagName) ==
  [rid |-> rid, op |-> op, auth |-> token, tagName |-> tagName,
   collections |-> IF op = "updateItem" THEN selectedCollections ELSE Empty,
   editedTags |-> IF op \in {"applySmartTag", "updateItem"}
                    THEN editedTags ELSE Empty,
   smartTags |-> IF op = "applySmartTag" THEN smartTags ELSE Empty]

\* GET /items/{id}
srvFindItem(its, id) == SelectSeq(its, LAMBDA it : it.id = id)

\* POST /items/{id}/apply-smart-tag: the tag joins the item's tags
srvApplySmartTag(its, id, tagName) ==
  [i \in DOMAIN its |->
     IF its[i].id = id /\ ~includes(its[i].tags, tagName)
       THEN [its[i] EXCEPT !.tags = Append(@, tagName)]
       ELSE its[i]]

\* the screen is past its loading branch and no dialog covers it
detailShown == ~detailLoading /\ item # NoItem /\ ~wentBack /\ alert = NoAlert

\* the effect on [token, id]: fetchItem() and fetchCollections(token), each
\* up to its await
mountDetail ==
  /\ token # Null
  /\ detailLoading /\ detailNet = {} /\ ~wentBack
  /\ detailNet' = {DetailReq(1, "fetchItem", Empty)}
  /\ collLoading' = TRUE
  /\ collNet' = collNet \cup
                  {CollReq(FreshRid(collNet), "fetch", 0, Empty, token)}
  /\ lastOp' = "mountDetail"
  /\ UNCHANGED <<detailForeign, collections, item, detailLoading, editedTags,
                 selectedCollections, aiSummary, extractedIdeas, smartTags,
                 actionItems, collectionSuggestion, isGeneratingSummary,
                 isExtractingIdeas, isGeneratingTags, isGeneratingActions,
                 approved, uiVars, srvVars>>

\* fetchItem after the await
fetchItemResolved ==
  \E r \in detailNet :
    /\ r.op = "fetchItem"
    /\ srvFindItem(srvItems, DetailId) # Empty
    /\ LET fetchedItem == srvFindItem(srvItems, DetailId)[1] IN
         /\ item' = fetchedItem
         /\ editedTags' = fetchedItem.tags
         /\ selectedCollections' = fetchedItem.collections
    /\ detailLoading' = FALSE
    /\ detailNet' = detailNet \ {r}
    /\ lastOp' = "fetchItemResolved"
    /\ UNCHANGED <<detailForeign, collStoreVars, aiSummary, extractedIdeas,
                   smartTags, actionItems, collectionSuggestion,
                   isGeneratingSummary, isExtractingIdeas, isGeneratingTags,
                   isGeneratingActions, approved, uiVars, srvVars>>

\* fetchItem, the catch: Alert 'Error', router.back()
fetchItemRejected ==
  \E r \in detailNet :
    /\ r.op = "fetchItem"
    /\ alert' = "Error"
    /\ wentBack' = TRUE
    /\ detailLoading' = FALSE
    /\ detailNet' = detailNet \ {r}
    /\ lastOp' = "fetchItemRejected"
    /\ UNCHANGED <<detailForeign, collStoreVars, item, editedTags,
                   selectedCollections, aiSummary, extractedIdeas, smartTags,
                   actionItems, collectionSuggestion, isGeneratingSummary,
                   isExtractingIdeas, isGeneratingTags, isGeneratingActions,
                   approved, srvVars>>

\* what no AI handler of the screen touches
aiForeign == <<detailForeign, collStoreVars, item, detailLoading, uiVars>>

\* an AI handler up to its await
aiSend(op, tagName) ==
  /\ detailShown
  /\ token # Null
  /\ CanSend(detailNet, MaxDetailInFlight)
  /\ detailNet' = detailNet \cup {DetailReq(FreshRid(detailNet), op, tagName)}
  /\ lastOp' = op

\* generateAISummary up to the await (button shown while aiSummary is empty,
\* disabled while isGeneratingSummary)
generateAISummary ==
  /\ Len(aiSummary) = 0 /\ ~isGeneratingSummary
  /\ aiSend("generateAISummary", Empty)
  /\ isGeneratingSummary' = TRUE
  /\ UNCHANGED <<aiForeign, editedTags, selectedCollections, aiSummary,
                 extractedIdeas, smartTags, actionItems, collectionSuggestion,
                 isExtractingIdeas, isGeneratingTags, isGeneratingActions,
                 approved, srvVars>>

\* generateAISummary after the await, and its finally
generateAISummaryResolved ==
  \E r \in detailNet, summary \in SummaryResponses :
    /\ r.op = "generateAISummary"
    /\ aiSummary' = IF Len(summary) > 0 THEN summary ELSE aiSummary
    /\ isGeneratingSummary' = FALSE
    /\ detailNet' = detailNet \ {r}
    /\ lastOp' = "generateAISummaryResolved"
    /\ UNCHANGED <<aiForeign, editedTags, selectedCollections, extractedIdeas,
                   smartTags, actionItems, collectionSuggestion,
                   isExtractingIdeas, isGeneratingTags, isGeneratingActions,
                   approved, srvVars>>

\* generateAISummary, the catch (console.log) and the finally
generateAISummaryRejected ==
  \E r \in detailNet :
    /\ r.op = "generateAISummary"
    /\ isGeneratingSummary' = FALSE
    /\ detailNet' = detailNet \ {r}
    /\ lastOp' = "generateAISummaryRejected"
    /\ UNCHANGED <<aiForeign, editedTags, selectedCollections, aiSummary,
                   extractedIdeas, smartTags, actionItems, collectionSuggestion,
                   isExtractingIdeas, isGeneratingTags, isGeneratingActions,
                   approved, srvVars>>

\* extractIdeas up to the await
extractIdeas ==
  /\ Len(extractedIdeas) = 0 /\ ~isExtractingIdeas
  /\ aiSend("extractIdeas", Empty)
  /\ isExtractingIdeas' = TRUE
  /\ UNCHANGED <<aiForeign, editedTags, selectedCollections, aiSummary,
                 extractedIdeas, smartTags, actionItems, collectionSuggestion,
                 isGeneratingSummary, isGeneratingTags, isGeneratingActions,
                 approved, srvVars>>

\* extractIdeas after the await, and its finally
extractIdeasResolved ==
  \E r \in detailNet, ideas \in IdeasResponses :
    /\ r.op = "extractIdeas"
    /\ extractedIdeas' = ideas
    /\ isExtractingIdeas' = FALSE
    /\ detailNet' = detailNet \ {r}
    /\ lastOp' = "extractIdeasResolved"
    /\ UNCHANGED <<aiForeign, editedTags, selectedCollections, aiSummary,
                   smartTags, actionItems, collectionSuggestion,
                   isGeneratingSummary, isGeneratingTags, isGeneratingActions,
                   approved, srvVars>>

\* extractIdeas, the catch (console.log) and the finally
extractIdeasRejected ==
  \E r \in detailNet :
    /\ r.op = "extractIdeas"
    /\ isExtractingIdeas' = FALSE
    /\ detailNet' = detailNet \ {r}
    /\ lastOp' = "extractIdeasRejected"
    /\ UNCHANGED <<aiForeign, editedTags, selectedCollections, aiSummary,
                   extractedIdeas, smartTags, actionItems, collectionSuggestion,
                   isGeneratingSummary, isGeneratingTags, isGeneratingActions,
                   approved, srvVars>>

\* generateSmartTags up to the await
generateSmartTags ==
  /\ Len(smartTags) = 0 /\ ~isGeneratingTags
  /\ aiSend("generateSmartTags", Empty)
  /\ isGeneratingTags' = TRUE
  /\ UNCHANGED <<aiForeign, editedTags, selectedCollections, aiSummary,
                 extractedIdeas, smartTags, actionItems, collectionSuggestion,
                 isGeneratingSummary, isExtractingIdeas, isGeneratingActions,
                 approved, srvVars>>

\* the tag names of a list of SmartTag
tagNames(sts) == [i \in DOMAIN sts |-> sts[i].name]

\* a continuation that adopts the suggested tags without asking
generateSmartTagsResolvedAutoApply ==
  \E r \in detailNet, suggested_tags \in SmartTagResponses :
    /\ r.op = "generateSmartTags"
    /\ smartTags' = suggested_tags
    /\ editedTags' = editedTags \o tagNames(suggested_tags)
    /\ isGeneratingTags' = FALSE
    /\ detailNet' = detailNet \ {r}
    /\ lastOp' = "generateSmartTagsResolved"
    /\ UNCHANGED <<aiForeign, selectedCollections, aiSummary,
                   extractedIdeas, actionItems, collectionSuggestion,
                   isGeneratingSummary, isExtractingIdeas, isGeneratingActions,
                   approved, srvVars>>

\* generateSmartTags after the await, and its finally
generateSmartTagsResolved ==
  \E r \in detailNet, suggested_tags \in SmartTagResponses :
    /\ r.op = "generateSmartTags"
    /\ smartTags' = suggested_tags
    /\ isGeneratingTags' = FALSE
    /\ detailNet' = detailNet \ {r}
    /\ lastOp' = "generateSmartTagsResolved"
    /\ UNCHANGED <<aiForeign, editedTags, selectedCollections, aiSummary,
                   extractedIdeas, actionItems, collectionSuggestion,
                   isGeneratingSummary, isExtractingIdeas, isGeneratingActions,
                   approved, srvVars>>

\* generateSmartTags, the catch (console.log) and the finally
generateSmartTagsRejected ==
  \E r \in detailNet :
    /\ r.op = "generateSmartTags"
    /\ isGeneratingTags' = FALSE
    /\ detailNet' = detailNet \ {r}
    /\ lastOp' = "generateSmartTagsRejected"
    /\ UNCHANGED <<aiForeign, editedTags, selectedCollections, aiSummary,
                   extractedIdeas, smartTags, actionItems, collectionSuggestion,
                   isGeneratingSummary, isExtractingIdeas, isGeneratingActions,
                   approved, srvVars>>

\* generateActionItems up to the await
generateActionItems ==
  /\ Len(actionItems) = 0 /\ ~isGeneratingActions
  /\ aiSend("generateActionItems", Empty)
  /\ isGeneratingActions' = TRUE
  /\ UNCHANGED <<aiForeign, editedTags, selectedCollections, aiSummary,
                 extractedIdeas, smartTags, actionItems, collectionSuggestion,
                 isGeneratingSummary, isExtractingIdeas, isGeneratingTags,
                 approved, srvVars>>

\* generateActionItems after the await, and its finally
generateActionItemsResolved ==
  \E r \in detailNet, action_items \in ActionItemResponses :
    /\ r.op = "generateActionItems"
    /\ actionItems' = action_items
    /\ isGeneratingActions' = FALSE
    /\ detailNet' = detailNet \ {r}
    /\ lastOp' = "generateActionItemsResolved"
    /\ UNCHANGED <<aiForeign, editedTags, selectedCollections, aiSummary,
                   extractedIdeas, smartTags, collectionSuggestion,
                   isGeneratingSummary, isExtractingIdeas, isGeneratingTags,
                   approved, srvVars>>

\* generateActionItems, the catch (console.log) and the finally
generateActionItemsRejected ==
  \E r \in detailNet :
    /\ r.op = "generateActionItems"
    /\ isGeneratingActions' = FALSE
    /\ detailNet' = detailNet \ {r}
    /\ lastOp' = "generateActionItemsRejected"
    /\ UNCHANGED <<aiForeign, editedTags, selectedCollections, aiSummary,
                   extractedIdeas, smartTags, actionItems, collectionSuggestion,
                   isGeneratingSummary, isExtractingIdeas, isGeneratingTags,
                   approved, srvVars>>

\* what getCollectionSuggestion, the approvals and the manual edits leave alone
genVars == <<aiSummary, extractedIdeas, actionItems, isGeneratingSummary,
             isExtractingIdeas, isGeneratingTags, isGeneratingActions>>

\* getCollectionSuggestion up to the await (button shown while there is no
\* suggestion, disabled while isGeneratingSummary)
getCollectionSuggestion ==
  /\ collectionSuggestion = NoSuggestion /\ ~isGeneratingSummary
  /\ aiSend("getCollectionSuggestion", Empty)
  /\ UNCHANGED <<aiForeign, genVars, editedTags, selectedCollections, smartTags,
                 collectionSuggestion, approved, srvVars>>

\* getCollectionSuggestion after the await
getCollectionSuggestionResolved ==
  \E r \in detailNet, data \in SuggestionResponses :
    /\ r.op = "getCollectionSuggestion"
    /\ collectionSuggestion' = data
    /\ detailNet' = detailNet \ {r}
    /\ lastOp' = "getCollectionSuggestionResolved"
    /\ UNCHANGED <<aiForeign, genVars, editedTags, selectedCollections,
                   smartTags, approved, srvVars>>

\* getCollectionSuggestion, the catch (console.log)
getCollectionSuggestionRejected ==
  \E r \in detailNet :
    /\ r.op = "getCollectionSuggestion"
    /\ detailNet' = detailNet \ {r}
    /\ lastOp' = "getCollectionSuggestionRejected"
    /\ UNCHANGED <<aiForeign, genVars, editedTags, selectedCollections,
                   smartTags, collectionSuggestion, approved, srvVars>>

\* a smart tag chip is tapped: applySmartTag(tag.name) up to the await
applySmartTag ==
  \E i \in DOMAIN smartTags :
    /\ aiSend("applySmartTag", smartTags[i].name)
    /\ UNCHANGED <<aiForeign, genVars, editedTags, selectedCollections,
                   smartTags, collectionSuggestion, approved, srvVars>>

\* applySmartTag after the await: editedTags and smartTags are those of the
\* render in which the chip was tapped
applySmartTagResolved ==
  \E r \in detailNet :
    /\ r.op = "applySmartTag"
    /\ srvItems' = srvApplySmartTag(srvItems, DetailId, r.tagName)
    /\ editedTags' = IF ~includes(r.editedTags, r.tagName)
                       THEN Append(r.editedTags, r.tagName)
                       ELSE editedTags
    /\ smartTags' = SelectSeq(r.smartTags, LAMBDA t : t.name # r.tagName)
    /\ approved' = approved \cup {r.tagName}
    /\ detailNet' = detailNet \ {r}
    /\ lastOp' = "applySmartTagResolved"
    /\ UNCHANGED <<aiForeign, genVars, selectedCollections,
                   collectionSuggestion, srvColls, srvNextItem, srvNextColl>>

\* applySmartTag, the catch (console.log)
applySmartTagRejected ==
  \E r \in detailNet :
    /\ r.op = "applySmartTag"
    /\ detailNet' = detailNet \ {r}
    /\ lastOp' = "applySmartTagRejected"
    /\ UNCHANGED <<aiForeign, genVars, editedTags, selectedCollections,
                   smartTags, collectionSuggestion, approved, srvVars>>

\* forEach(t => if (!newTags.includes(t.name)) newTags.push(t.name))
RECURSIVE pushAll(_, _)
pushAll(newTags, sts) ==
  IF sts = Empty THEN newTags
  ELSE pushAll(IF includes(newTags, Head(sts).name)
                 THEN newTags ELSE Append(newTags, Head(sts).name),
               Tail(sts))

\* the Approve All button (shown while some suggested tag is not adopted)
approveAll ==
  /\ detailShown
  /\ Len(smartTags) > 0
  /\ ~(\A i \in DOMAIN smartTags : includes(editedTags, smartTags[i].name))
  /\ editedTags' = pushAll(editedTags, smartTags)
  /\ lastOp' = "approveAll"
  /\ UNCHANGED <<aiForeign, genVars, selectedCollections, smartTags,
                 collectionSuggestion, detailNet, approved, srvVars>>

\* collections.find(c => c.name.toLowerCase() === name.toLowerCase())
findByName(cols, name) ==
  SelectSeq(cols, LAMBDA c : toLowerCase(c.name) = toLowerCase(name))

\* the Add button of the collection suggestion
addSuggestedCollection ==
  /\ detailShown
  /\ collectionSuggestion # NoSuggestion
  /\ LET found == findByName(collections, collectionSuggestion.collection_name) IN
       selectedCollections' =
         IF found # Empty /\ ~includes(selectedCollections, found[1].id)
           THEN Append(selectedCollections, found[1].id)
           ELSE selectedCollections
  /\ alert' = "Added!"
  /\ lastOp' = "addSuggestedCollection"
  /\ UNCHANGED <<detailForeign, collStoreVars, item, detailLoading, wentBack,
                 genVars, editedTags, smartTags, collectionSuggestion,
                 detailNet, approved, srvVars>>

\* the tag field is filled in (setTagInput), then handleAddTag runs
detailHandleAddTag ==
  \E input \in TagInputs :
    /\ detailShown
    /\ editedTags' = addTag(editedTags, input)
    /\ lastOp' = "detailHandleAddTag"
    /\ UNCHANGED <<aiForeign, genVars, selectedCollections, smartTags,
                   collectionSuggestion, detailNet, approved, srvVars>>

\* handleRemoveTag: the x of a tag chip
detailHandleRemoveTag ==
  \E t \in Range(editedTags) :
    /\ detailShown
    /\ editedTags' = without(editedTags, t)
    /\ lastOp' = "detailHandleRemoveTag"
    /\ UNCHANGED <<aiForeign, genVars, selectedCollections, smartTags,
                   collectionSuggestion, detailNet, approved, srvVars>>

\* toggleCollection: a row of the collections list
detailToggleCollection ==
  \E c \in Range(collections) :
    /\ detailShown
    /\ selectedCollections' = toggled(selectedCollections, c.id)
    /\ lastOp' = "detailToggleCollection"
    /\ UNCHANGED <<aiForeign, genVars, editedTags, smartTags,
                   collectionSuggestion, detailNet, approved, srvVars>>

(***************************** collection screen ****************************)
\* the route parameter id of the collection screen
CollectionId == 1

\* a request of the screen (deleteItem's request included); collections is
\* the body of the PUT
CsReq(rid, op, id, cols) ==
  [rid |-> rid, op |-> op, id |-> id, collections |-> cols, auth |-> token]

\* GET /items?collection={id}
srvItemsOfCollection(its, cid) ==
  SelectSeq(its, LAMBDA it : includes(it.collections, cid))

\* PUT /items/{id} with body {collections}
srvSetItemCollections(its, id, cols) ==
  [i \in DOMAIN its |->
     IF its[i].id = id THEN [its[i] EXCEPT !.collections = cols] ELSE its[i]]

\* DELETE /items/{id}
srvDeleteItem(its, id) == SelectSeq(its, LAMBDA it : it.id # id)

\* deleteItem's set(): items.filter((item) => item.id !== id)
deleteItemSet(its, id) == SelectSeq(its, LAMBDA it : it.id # id)

\* the effect on [token, id]: fetchItems() up to the await
csMount ==
  /\ token # Null
  /\ csLoading /\ csNet = {}
  /\ csNet' = {CsReq(1, "fetch", 0, Empty)}
  /\ lastOp' = "csMount"
  /\ UNCHANGED <<csForeign, itemStoreVars, csItems, csLoading, deletingItemId,
                 alertItem, uiVars, srvVars>>

\* the screen's fetchItems after the await, and its finally
csFetchResolved ==
  \E r \in csNet :
    /\ r.op = "fetch"
    /\ csItems' = srvItemsOfCollection(srvItems, CollectionId)
    /\ csLoading' = FALSE
    /\ csNet' = csNet \ {r}
    /\ lastOp' = "csFetchResolved"
    /\ UNCHANGED <<csForeign, itemStoreVars, deletingItemId, alertItem, uiVars,
                   srvVars>>

\* the screen's fetchItems, the catch (console.error) and the finally
csFetchRejected ==
  \E r \in csNet :
    /\ r.op = "fetch"
    /\ csLoading' = FALSE
    /\ csNet' = csNet \ {r}
    /\ lastOp' = "csFetchRejected"
    /\ UNCHANGED <<csForeign, itemStoreVars, csItems, deletingItemId, alertItem,
                   uiVars, srvVars>>

\* a step of the screen that only replaces the dialog
csDialog(from, to, op) ==
  /\ alert = from
  /\ alert' = to
  /\ lastOp' = op
  /\ UNCHANGED <<csForeign, itemStoreVars, csItems, csLoading, deletingItemId,
                 csNet, wentBack, srvVars>>

\* the ... button of a row (shown unless the row is being deleted)
csItemOptions ==
  \E it \in Range(csItems) :
    /\ ~csLoading
    /\ deletingItemId # it.id
    /\ alertItem' = it
    /\ csDialog(NoAlert, "Item Options", "csItemOptions")

\* Cancel in the options dialog
csOptionsCancel ==
  csDialog("Item Options", NoAlert, "csOptionsCancel") /\ UNCHANGED alertItem

\* a variant that sends the DELETE without asking
csHandleDeleteItemNoConfirm ==
  /\ alert = "Item Options"
  /\ CanSend(csNet, MaxCsInFlight)
  /\ alert' = NoAlert
  /\ deletingItemId' = alertItem.id
  /\ csNet' = csNet \cup {CsReq(FreshRid(csNet), "delete", alertItem.id, Empty)}
  /\ lastOp' = "csHandleDeleteItem"
  /\ UNCHANGED <<csForeign, itemStoreVars, csItems, csLoading, alertItem,
                 wentBack, srvVars>>

\* 'Delete Permanently': handleDeleteItem(item) shows the confirmation
csHandleDeleteItem ==
  csDialog("Item Options", "Delete Save", "csHandleDeleteItem")
    /\ UNCHANGED alertItem

\* Cancel in the 'Delete Save' dialog
csDeleteCancel ==
  csDialog("Delete Save", NoAlert, "csDeleteCancel") /\ UNCHANGED alertItem

\* Delete in the 'Delete Save' dialog, up to the await of deleteItem
csDeleteConfirm ==
  /\ alert = "Delete Save"
  /\ token # Null
  /\ CanSend(csNet, MaxCsInFlight)
  /\ alert' = NoAlert
  /\ deletingItemId' = alertItem.id
  /\ csNet' = csNet \cup {CsReq(FreshRid(csNet), "delete", alertItem.id, Empty)}
  /\ lastOp' = "csDeleteConfirm"
  /\ UNCHANGED <<csForeign, itemStoreVars, csItems, csLoading, alertItem,
                 wentBack, srvVars>>

\* deleteItem after the await (the store's set), then the screen's setItems
\* and finally
csDeleteResolved ==
  \E r \in csNet :
    /\ r.op = "delete"
    /\ srvItems' = srvDeleteItem(srvItems, r.id)
    /\ items' = deleteItemSet(items, r.id)
    /\ csItems' = SelectSeq(csItems, LAMBDA i : i.id # r.id)
    /\ deletingItemId' = 0
    /\ csNet' = csNet \ {r}
    /\ lastOp' = "csDeleteResolved"
    /\ UNCHANGED <<csForeign, itemsLoading, itemNet, csLoading, alertItem,
                   uiVars, srvColls, srvNextItem, srvNextColl>>

\* deleteItem rethrows; the screen's catch and finally
csDeleteRejected ==
  \E r \in csNet :
    /\ r.op = "delete"
    /\ alert' = "Error"
    /\ deletingItemId' = 0
    /\ csNet' = csNet \ {r}
    /\ lastOp' = "csDeleteRejected"
    /\ UNCHANGED <<csForeign, itemStoreVars, csItems, csLoading, alertItem,
                   wentBack, srvVars>>

\* a body that also drops the other memberships
removeBodyDropsAll(cols, cid) == Empty

\* (item.collections || []).filter(c => c !== id)
removeBody(cols, cid) == without(cols, cid)

\* 'Remove from Collection': handleRemoveFromCollection(item) shows the
\* confirmation
csHandleRemoveFromCollection ==
  csDialog("Item Options", "Remove from Collection",
           "csHandleRemoveFromCollection") /\ UNCHANGED alertItem

\* Cancel in the 'Remove from Collection' dialog
csRemoveCancel ==
  csDialog("Remove from Collection", NoAlert, "csRemoveCancel")
    /\ UNCHANGED alertItem

\* Remove in the 'Remove from Collection' dialog, up to the await of the PUT
csRemoveConfirm ==
  /\ alert = "Remove from Collection"
  /\ token # Null
  /\ CanSend(csNet, MaxCsInFlight)
  /\ alert' = NoAlert
  /\ deletingItemId' = alertItem.id
  /\ csNet' = csNet \cup
       {CsReq(FreshRid(csNet), "put", alertItem.id,
              removeBody(alertItem.collections, CollectionId))}
  /\ lastOp' = "csRemoveConfirm"
  /\ UNCHANGED <<csForeign, itemStoreVars, csItems, csLoading, alertItem,
                 wentBack, srvVars>>

\* the Remove handler after the await: setItems, and the finally
csRemoveResolved ==
  \E r \in csNet :
    /\ r.op = "put"
    /\ srvItems' = srvSetItemCollections(srvItems, r.id, r.collections)
    /\ csItems' = SelectSeq(csItems, LAMBDA i : i.id # r.id)
    /\ deletingItemId' = 0
    /\ csNet' = csNet \ {r}
    /\ lastOp' = "csRemoveResolved"
    /\ UNCHANGED <<csForeign, itemStoreVars, csLoading, alertItem, uiVars,
                   srvColls, srvNextItem, srvNextColl>>

\* the Remove handler, the catch and the finally
csRemoveRejected ==
  \E r \in csNet :
    /\ r.op = "put"
    /\ alert' = "Error"
    /\ deletingItemId' = 0
    /\ csNet' = csNet \ {r}
    /\ lastOp' = "csRemoveRejected"
    /\ UNCHANGED <<csForeign, itemStoreVars, csItems, csLoading, alertItem,
                   wentBack, srvVars>>

(************************* item detail screen: save *************************)
\* PUT /items/{id} with tags and collections: the backend stores them
srvUpdateItem(its, id, tgs, cols) ==
  [i \in DOMAIN its |->
     IF its[i].id = id THEN SavedItem(id, tgs, cols) ELSE its[i]]

\* an updateItem that puts the response in front of the list
updateItemSetInFront(its, id, resp) ==
  <<resp>> \o SelectSeq(its, LAMBDA it : it.id # id)

\* updateItem's set(): items.map(item => item.id === id ? response.data : item)
updateItemSet(its, id, resp) ==
  [i \in DOMAIN its |-> IF its[i].id = id THEN resp ELSE its[i]]

\* useState(false) isSaving: true from handleSave's call to its finally
detailIsSaving == \E r \in detailNet : r.op = "updateItem"

\* handleSave of the detail screen, up to the await of updateItem
detailHandleSave ==
  /\ detailShown
  /\ token # Null
  /\ ~detailIsSaving
  /\ CanSend(detailNet, MaxDetailInFlight)
  /\ detailNet' = detailNet \cup
       {DetailReq(FreshRid(detailNet), "updateItem", Empty)}
  /\ lastOp' = "detailHandleSave"
  /\ UNCHANGED <<detailForeign, collStoreVars, item, detailLoading, editedTags,
                 selectedCollections, genVars, smartTags, collectionSuggestion,
                 approved, uiVars, srvVars>>

\* updateItem after the await (the store's set), then Alert 'Success'
updateItemResolved ==
  \E r \in detailNet :
    /\ r.op = "updateItem"
    /\ srvFindItem(srvItems, item.id) # Empty
    /\ srvItems' = srvUpdateItem(srvItems, item.id, r.editedTags, r.collections)
    /\ items' = updateItemSet(items, item.id,
                              srvFindItem(srvItems', item.id)[1])
    /\ alert' = "Success"
    /\ detailNet' = detailNet \ {r}
    /\ lastOp' = "updateItemResolved"
    /\ UNCHANGED <<searchVars, queryVars, onbVars, proVars, csVars, authVars,
                   collScreenVars, addVars, createdTags, itemsLoading, itemNet,
                   collStoreVars, item, detailLoading, editedTags,
                   selectedCollections, genVars, smartTags,
                   collectionSuggestion, approved, wentBack,
                   srvColls, srvNextItem, srvNextColl>>

\* updateItem rethrows; handleSave's catch: Alert 'Error'
updateItemRejected ==
  \E r \in detailNet :
    /\ r.op = "updateItem"
    /\ alert' = "Error"
    /\ detailNet' = detailNet \ {r}
    /\ lastOp' = "updateItemRejected"
    /\ UNCHANGED <<detailForeign, collStoreVars, item, detailLoading,
                   editedTags, selectedCollections, genVars, smartTags,
                   collectionSuggestion, approved, wentBack, srvVars>>

\* what the delete handlers of the item detail screen leave alone
detailKept == <<item, detailLoading, editedTags, selectedCollections, genVars,
                smartTags, collectionSuggestion, approved>>

\* handleDelete: the confirmation dialog
detailHandleDelete ==
  /\ detailShown
  /\ token # Null
  /\ alert' = "Delete Item"
  /\ lastOp' = "detailHandleDelete"
  /\ UNCHANGED <<detailForeign, collStoreVars, detailKept, detailNet, wentBack,
                 srvVars>>

\* Cancel in the 'Delete Item' dialog
detailDeleteCancel ==
  /\ alert = "Delete Item"
  /\ alert' = NoAlert
  /\ lastOp' = "detailDeleteCancel"
  /\ UNCHANGED <<detailForeign, collStoreVars, detailKept, detailNet, wentBack,
                 srvVars>>

\* Delete in the 'Delete Item' dialog, up to the await of deleteItem
detailDeleteConfirm ==
  /\ alert = "Delete Item"
  /\ CanSend(detailNet, MaxDetailInFlight)
  /\ alert' = NoAlert
  /\ detailNet' = detailNet \cup {DetailReq(FreshRid(detailNet), "deleteItem", Empty)}
  /\ lastOp' = "detailDeleteConfirm"
  /\ UNCHANGED <<detailForeign, collStoreVars, detailKept, wentBack, srvVars>>

\* deleteItem after the await (the store's set), then router.back()
detailDeleteResolved ==
  \E r \in detailNet :
    /\ r.op = "deleteItem"
    /\ srvItems' = srvDeleteItem(srvItems, item.id)
    /\ items' = deleteItemSet(items, item.id)
    /\ wentBack' = TRUE
    /\ detailNet' = detailNet \ {r}
    /\ lastOp' = "detailDeleteResolved"
    /\ UNCHANGED <<searchVars, queryVars, onbVars, proVars, csVars, authVars, collScreenVars, addVars, createdTags,
                   itemsLoading, itemNet, collStoreVars, detailKept, alert,
                   srvColls, srvNextItem, srvNextColl>>

\* deleteItem rethrows; the dialog handler's catch
detailDeleteRejected ==
  \E r \in detailNet :
    /\ r.op = "deleteItem"
    /\ alert' = "Error"
    /\ detailNet' = detailNet \ {r}
    /\ lastOp' = "detailDeleteRejected"
    /\ UNCHANGED <<detailForeign, collStoreVars, detailKept, wentBack, srvVars>>

(******************************* root layout *******************************)
ProtectedScreens == {"(tabs)", "add-item", "item/[id]", "collection/[id]"}
PublicScreens == {"index", "login", "register"}

\* a layout that registers every screen whatever the auth state
RootLayoutAllScreens == ProtectedScreens \cup PublicScreens

\* the screens RootLayout registers: none while hydrating or initializing,
\* then the protected stack or the public stack
RootLayout ==
  IF ~hasHydrated \/ isInitializing THEN {}
  ELSE IF isAuthenticated THEN ProtectedScreens ELSE PublicScreens

(******************************** auth store *******************************)
\* partialize: what persist writes to 'auth-storage'
partialize(tok, u) == [token |-> tok, user |-> u]

AuthReq(rid, op, auth) == [rid |-> rid, op |-> op, auth |-> auth]

\* persist's rehydration, then onRehydrateStorage: setHasHydrated(true)
rehydrate ==
  /\ ~hasHydrated
  /\ token' = storage.token
  /\ user' = storage.user
  /\ hasHydrated' = TRUE
  /\ lastOp' = "rehydrate"
  /\ UNCHANGED <<isAuthenticated, authLoading, storage, authToken,
                 isInitializing, effectDeps, authNet, issuedToken, errorMessage, authForeign, uiVars>>

\* an initialize without its finally on the path that sends no request
initializeNoFinally ==
  /\ effectDeps # <<hasHydrated, token>>
  /\ effectDeps' = <<hasHydrated, token>>
  /\ IF hasHydrated /\ token # Null
       THEN /\ CanSend(authNet, MaxAuthInFlight)
            /\ authNet' = authNet \cup
                 {AuthReq(FreshRid(authNet), "me", token)}
       ELSE UNCHANGED authNet
  /\ lastOp' = "initialize"
  /\ UNCHANGED <<user, token, isAuthenticated, authLoading, hasHydrated, storage,
                 isInitializing, authToken, issuedToken, errorMessage,
                 authForeign, uiVars>>

\* RootLayout's effect on [hasHydrated, token]: initialize(), up to the await
\* of checkAuth (checkAuth sends GET /auth/me with the store's token as its
\* Authorization header)
initialize ==
  /\ effectDeps # <<hasHydrated, token>>
  /\ effectDeps' = <<hasHydrated, token>>
  /\ IF ~hasHydrated
       THEN UNCHANGED <<isInitializing, authNet>>
       ELSE IF token # Null
         THEN /\ CanSend(authNet, MaxAuthInFlight)
              /\ authNet' = authNet \cup
                   {AuthReq(FreshRid(authNet), "me", token)}
              /\ UNCHANGED isInitializing
         ELSE /\ isInitializing' = FALSE
              /\ UNCHANGED authNet
  /\ lastOp' = "initialize"
  /\ UNCHANGED <<user, token, isAuthenticated, authLoading, hasHydrated, storage,
                 authToken, issuedToken, errorMessage, authForeign, uiVars>>

\* checkAuth after the await, then initialize's finally
checkAuthResolved ==
  \E r \in authNet, u \in Users :
    /\ r.op = "me"
    /\ user' = u
    /\ isAuthenticated' = TRUE
    /\ storage' = partialize(token, u)
    /\ isInitializing' = FALSE
    /\ authNet' = authNet \ {r}
    /\ lastOp' = "checkAuthResolved"
    /\ UNCHANGED <<token, authLoading, hasHydrated, authToken, effectDeps,
                   issuedToken, errorMessage, authForeign, uiVars>>

\* checkAuth called on the store outside initialize, up to its await: with
\* no token it sets isAuthenticated false and returns, otherwise it sends
\* GET /auth/me with the token
checkAuth ==
  /\ hasHydrated /\ ~isInitializing
  /\ IF token = Null
       THEN /\ isAuthenticated' = FALSE
            /\ UNCHANGED authNet
       ELSE /\ CanSend(authNet, MaxAuthInFlight)
            /\ authNet' = authNet \cup
                 {AuthReq(FreshRid(authNet), "me", token)}
            /\ UNCHANGED isAuthenticated
  /\ lastOp' = "checkAuth"
  /\ UNCHANGED <<user, token, authLoading, hasHydrated, storage, authToken,
                 isInitializing, effectDeps, issuedToken, errorMessage,
                 authForeign, uiVars>>

\* a catch of checkAuth that keeps the stored token
checkAuthRejectedKeepsToken ==
  \E r \in authNet :
    /\ r.op = "me"
    /\ user' = NoUser
    /\ isAuthenticated' = FALSE
    /\ storage' = partialize(token, NoUser)
    /\ isInitializing' = FALSE
    /\ authNet' = authNet \ {r}
    /\ lastOp' = "checkAuthRejected"
    /\ UNCHANGED <<token, issuedToken, authLoading, hasHydrated, authToken,
                   effectDeps, errorMessage, authForeign, uiVars>>

\* checkAuth's catch, then initialize's finally
checkAuthRejected ==
  \E r \in authNet :
    /\ r.op = "me"
    /\ user' = NoUser
    /\ token' = Null
    /\ isAuthenticated' = FALSE
    /\ storage' = partialize(Null, NoUser)
    /\ isInitializing' = FALSE
    /\ authNet' = authNet \ {r}
    /\ lastOp' = "checkAuthRejected"
    /\ issuedToken' = Null
    /\ UNCHANGED <<authLoading, hasHydrated, authToken, effectDeps,
                   errorMessage, authForeign, uiVars>>

\* handleLogin / handleRegister with the fields filled in, up to the await
\* inside login / register
authCall(screen, op) ==
  /\ screen \in RootLayout
  /\ alert = NoAlert
  /\ ~authLoading
  /\ CanSend(authNet, MaxAuthInFlight)
  /\ authLoading' = TRUE
  /\ authNet' = authNet \cup
       {AuthReq(FreshRid(authNet), op, NoHeader)}
  /\ lastOp' = op
  /\ UNCHANGED <<user, token, isAuthenticated, hasHydrated, storage, authToken,
                 isInitializing, effectDeps, issuedToken, errorMessage, authForeign, uiVars>>

\* login / register after the await: the store takes the response's user
\* and access_token
authResolved(op) ==
  \E r \in authNet, u \in Users, t \in Tokens :
    /\ r.op = op
    /\ user' = u
    /\ token' = t
    /\ isAuthenticated' = TRUE
    /\ authLoading' = FALSE
    /\ storage' = partialize(t, u)
    /\ authNet' = authNet \ {r}
    /\ issuedToken' = t
    /\ UNCHANGED <<hasHydrated, authToken, isInitializing, effectDeps,
                   errorMessage, authForeign, uiVars>>

\* error.response?.data?.detail of a failed request: the detail of the
\* server's error response, or nothing when no response arrived
ServerDetails == {"Invalid credentials"}
FailureDetails == ServerDetails \cup {Null}

\* error.response?.data?.detail || fallback
thrownMessage(detail, fallback) == IF detail = Null THEN fallback ELSE detail

fallbackMessage(op) == IF op = "login" THEN "Login failed" ELSE "Registration failed"

\* a catch of login / register that also drops the session
authRejectedClearsSession(op) ==
  \E r \in authNet, detail \in FailureDetails :
    /\ r.op = op
    /\ authLoading' = FALSE
    /\ user' = NoUser
    /\ token' = Null
    /\ isAuthenticated' = FALSE
    /\ storage' = partialize(Null, NoUser)
    /\ errorMessage' = thrownMessage(detail, fallbackMessage(op))
    /\ alert' = "Error"
    /\ authNet' = authNet \ {r}
    /\ UNCHANGED <<hasHydrated, authToken, isInitializing, effectDeps,
                   issuedToken, authForeign, wentBack>>

\* login / register, the catch: isLoading is reset and an Error is thrown
\* with the response's detail or the fallback text; the screen's catch shows
\* its message in an alert and does not reach router.replace
authRejected(op) ==
  \E r \in authNet, detail \in FailureDetails :
    /\ r.op = op
    /\ authLoading' = FALSE
    /\ errorMessage' = thrownMessage(detail, fallbackMessage(op))
    /\ alert' = "Error"
    /\ authNet' = authNet \ {r}
    /\ UNCHANGED <<user, token, isAuthenticated, hasHydrated, storage, authToken,
                   isInitializing, effectDeps, issuedToken, authForeign, wentBack>>

login == authCall("login", "login")
loginResolved == authResolved("login") /\ lastOp' = "loginResolved"
loginRejected == authRejected("login") /\ lastOp' = "loginRejected"

register == authCall("register", "register")
registerResolved == authResolved("register") /\ lastOp' = "registerResolved"
registerRejected == authRejected("register") /\ lastOp' = "registerRejected"

\* handleLogout: the confirmation dialog of the profile tab
handleLogout ==
  /\ "(tabs)" \in RootLayout
  /\ alert = NoAlert
  /\ alert' = "Sign Out"
  /\ lastOp' = "handleLogout"
  /\ UNCHANGED <<authVars, authForeign, wentBack>>

\* the dialog's Cancel button
handleLogoutCancel ==
  /\ alert = "Sign Out"
  /\ alert' = NoAlert
  /\ lastOp' = "handleLogoutCancel"
  /\ UNCHANGED <<authVars, authForeign, wentBack>>

\* a logout that also empties the lists of the other stores
logoutClearsLists ==
  /\ alert = "Sign Out"
  /\ alert' = NoAlert
  /\ user' = NoUser
  /\ token' = Null
  /\ isAuthenticated' = FALSE
  /\ storage' = partialize(Null, NoUser)
  /\ lastOp' = "logout"
  /\ issuedToken' = Null
  /\ items' = Empty
  /\ collections' = Empty
  /\ UNCHANGED <<authLoading, hasHydrated, authToken, isInitializing,
                 effectDeps, authNet, errorMessage, wentBack,
                 searchVars, queryVars, onbVars, proVars, csVars, detailVars, addVars, collScreenVars,
                 itemsLoading, itemNet, collLoading, collNet, srvVars,
                 createdTags>>

\* the dialog's Sign Out button: logout
logout ==
  /\ alert = "Sign Out"
  /\ alert' = NoAlert
  /\ user' = NoUser
  /\ token' = Null
  /\ isAuthenticated' = FALSE
  /\ storage' = partialize(Null, NoUser)
  /\ lastOp' = "logout"
  /\ issuedToken' = Null
  /\ UNCHANGED <<authLoading, hasHydrated, authToken, isInitializing,
                 effectDeps, authNet, errorMessage, authForeign, wentBack>>

\* the inbox tab gains focus: fetchItems() through the shared api client
inboxFocus == "(tabs)" \in RootLayout /\ fetchItems

\* the sort button of the inbox: setSortOrder, after which the focus effect
\* on [sortOrder, platformFilter] runs again and calls fetchItems
inboxToggleSort ==
  /\ "(tabs)" \in RootLayout
  /\ sortOrder' = IF sortOrder = "newest" THEN "oldest" ELSE "newest"
  /\ fetchItemsSend(sortOrder', platformFilter)
  /\ lastOp' = "setSortOrder"
  /\ UNCHANGED <<queryForeign, platformFilter, createdTags, items, addVars,
                 uiVars, srvVars>>

\* a platform chip of the inbox: setPlatformFilter, after which the focus
\* effect runs again if the filter changed
inboxSelectPlatform ==
  \E p \in Platforms :
    /\ "(tabs)" \in RootLayout
    /\ p # platformFilter
    /\ platformFilter' = p
    /\ fetchItemsSend(sortOrder, p)
    /\ lastOp' = "setPlatformFilter"
    /\ UNCHANGED <<queryForeign, sortOrder, createdTags, items, addVars,
                   uiVars, srvVars>>

(********************* profile, search and upgrade screens ******************)
\* useState<PlanInfo | null>(null), and a loaded /users/plan response
NoPlanInfo == [loaded |-> FALSE, is_pro |-> FALSE]
PlanInfo(plan) == [loaded |-> TRUE, is_pro |-> plan = "pro"]

\* user?.plan_type === 'pro' || user?.is_pro (is_pro is set together with
\* plan_type wherever the client sets it)
isProUser(u) == u.plan_type = "pro"

\* what GET /api/search can return
SearchResponses == {Empty, <<SavedItem(1, Empty, Empty)>>}

\* what the user can type into the search field
QueryInputs == { <<"a">>, <<"a", "b">> }

\* the HTTP status of a failed search request
SearchFailures == {403, 500}

ProReq(rid, op, endpoint) == [rid |-> rid, op |-> op, url |-> endpoint]

\* the auth store's fields that setState({user}) leaves alone
sessionVars == <<token, isAuthenticated, authLoading, hasHydrated, authToken,
                 isInitializing, effectDeps, authNet, issuedToken, errorMessage>>

\* ProfileScreen's effect on [token]: fetchPlanInfo() up to its await
profileMount ==
  /\ token # Null /\ ~profileMounted
  /\ CanSend(proNet, MaxProInFlight)
  /\ profileMounted' = TRUE
  /\ proNet' = proNet \cup
       {ProReq(FreshRid(proNet), "fetchPlanInfo", "/api/users/plan")}
  /\ lastOp' = "profileMount"
  /\ UNCHANGED <<authVars, proForeign, planInfo, isExporting,
                 showAdvancedOptions, isSearching, upgradeLoading, srvPlan,
                 uiVars>>

\* fetchPlanInfo after the await
fetchPlanInfoResolved ==
  \E r \in proNet :
    /\ r.op = "fetchPlanInfo"
    /\ planInfo' = PlanInfo(srvPlan)
    /\ proNet' = proNet \ {r}
    /\ lastOp' = "fetchPlanInfoResolved"
    /\ UNCHANGED <<authVars, proForeign, profileMounted, isExporting,
                   showAdvancedOptions, isSearching, upgradeLoading, srvPlan,
                   uiVars>>

\* fetchPlanInfo, the catch (console.log)
fetchPlanInfoRejected ==
  \E r \in proNet :
    /\ r.op = "fetchPlanInfo"
    /\ proNet' = proNet \ {r}
    /\ lastOp' = "fetchPlanInfoRejected"
    /\ UNCHANGED <<authVars, proForeign, profileMounted, planInfo, isExporting,
                   showAdvancedOptions, isSearching, upgradeLoading, srvPlan,
                   uiVars>>

\* the Export Vault row: handleExport up to its return or its await
handleExport ==
  /\ profileMounted /\ alert = NoAlert
  /\ IF ~(planInfo.loaded /\ planInfo.is_pro)
       THEN /\ alert' = "Pro Feature"
            /\ UNCHANGED <<isExporting, proNet>>
       ELSE /\ CanSend(proNet, MaxProInFlight)
            /\ isExporting' = TRUE
            /\ proNet' = proNet \cup
                 {ProReq(FreshRid(proNet), "export", "/api/export/vault")}
            /\ UNCHANGED alert
  /\ lastOp' = "handleExport"
  /\ UNCHANGED <<authVars, proForeign, profileMounted, planInfo,
                 showAdvancedOptions, isSearching, upgradeLoading, srvPlan,
                 wentBack>>

\* handleExport after the await, and its finally
handleExportResolved ==
  \E r \in proNet :
    /\ r.op = "export"
    /\ alert' = "Export Ready"
    /\ isExporting' = FALSE
    /\ proNet' = proNet \ {r}
    /\ lastOp' = "handleExportResolved"
    /\ UNCHANGED <<authVars, proForeign, profileMounted, planInfo,
                   showAdvancedOptions, isSearching, upgradeLoading, srvPlan,
                   wentBack>>

\* handleExport, the catch and the finally
handleExportRejected ==
  \E r \in proNet :
    /\ r.op = "export"
    /\ alert' = "Error"
    /\ isExporting' = FALSE
    /\ proNet' = proNet \ {r}
    /\ lastOp' = "handleExportRejected"
    /\ UNCHANGED <<authVars, proForeign, profileMounted, planInfo,
                   showAdvancedOptions, isSearching, upgradeLoading, srvPlan,
                   wentBack>>

\* a toggle that flips the options for every user
toggleAdvancedOptionsUngated ==
  /\ alert = NoAlert
  /\ showAdvancedOptions' = ~showAdvancedOptions
  /\ lastOp' = "toggleAdvancedOptions"
  /\ UNCHANGED <<authVars, proForeign, profileMounted, planInfo, isExporting,
                 isSearching, upgradeLoading, proNet, srvPlan, uiVars>>

\* the options button of the search screen
toggleAdvancedOptions ==
  /\ alert = NoAlert
  /\ IF ~isProUser(user)
       THEN /\ alert' = "Pro Feature"
            /\ UNCHANGED showAdvancedOptions
       ELSE /\ showAdvancedOptions' = ~showAdvancedOptions
            /\ UNCHANGED alert
  /\ lastOp' = "toggleAdvancedOptions"
  /\ UNCHANGED <<authVars, proForeign, profileMounted, planInfo, isExporting,
                 isSearching, upgradeLoading, proNet, srvPlan, wentBack>>

\* the endpoint performSearch asks
searchEndpoint == IF isProUser(user) /\ showAdvancedOptions
                    THEN "/api/search/advanced" ELSE "/api/search"

\* the search field changes and the debounce delay passes: performSearch up
\* to its return or its await (searchItems sends GET /api/search)
performSearch ==
  \E searchQuery \in QueryInputs :
    /\ alert = NoAlert
    /\ query' = searchQuery
    /\ IF Len(searchQuery) < 2 \/ token = Null
         THEN /\ results' = Empty
              /\ hasSearched' = FALSE
              /\ UNCHANGED <<isSearching, proNet>>
         ELSE /\ CanSend(proNet, MaxProInFlight)
              /\ isSearching' = TRUE
              /\ proNet' = proNet \cup
                   {ProReq(FreshRid(proNet), "search", searchEndpoint)}
              /\ UNCHANGED <<results, hasSearched>>
    /\ lastOp' = "performSearch"
    /\ UNCHANGED <<authVars, searchForeign, profileMounted, planInfo, isExporting,
                   showAdvancedOptions, upgradeLoading, srvPlan, uiVars>>

\* handleClear, the x of the search field
handleClear ==
  /\ alert = NoAlert
  /\ query' = Empty
  /\ results' = Empty
  /\ hasSearched' = FALSE
  /\ lastOp' = "handleClear"
  /\ UNCHANGED <<authVars, searchForeign, proVars, uiVars>>

\* performSearch after the await, and its finally
performSearchResolved ==
  \E r \in proNet, found \in SearchResponses :
    /\ r.op = "search"
    /\ results' = found
    /\ hasSearched' = TRUE
    /\ isSearching' = FALSE
    /\ proNet' = proNet \ {r}
    /\ lastOp' = "performSearchResolved"
    /\ UNCHANGED <<authVars, searchForeign, query, profileMounted, planInfo,
                   isExporting, showAdvancedOptions, upgradeLoading, srvPlan,
                   uiVars>>

\* performSearch, the catch (the prompt on 403) and the finally
performSearchRejected ==
  \E r \in proNet, status \in SearchFailures :
    /\ r.op = "search"
    /\ alert' = IF status = 403 THEN "Pro Feature" ELSE alert
    /\ isSearching' = FALSE
    /\ proNet' = proNet \ {r}
    /\ lastOp' = "performSearchRejected"
    /\ UNCHANGED <<authVars, proForeign, profileMounted, planInfo, isExporting,
                   showAdvancedOptions, upgradeLoading, srvPlan, wentBack>>

\* the upgrade button: handleUpgrade up to its first await
handleUpgrade ==
  /\ alert = NoAlert /\ ~upgradeLoading
  /\ token # Null
  /\ CanSend(proNet, MaxProInFlight)
  /\ upgradeLoading' = TRUE
  /\ proNet' = proNet \cup
       {ProReq(FreshRid(proNet), "upgrade", "/api/users/upgrade-pro")}
  /\ lastOp' = "handleUpgrade"
  /\ UNCHANGED <<authVars, proForeign, profileMounted, planInfo, isExporting,
                 showAdvancedOptions, isSearching, srvPlan, uiVars>>

\* POST upgrade-pro succeeded: the backend holds the new plan, and
\* handleUpgrade goes on to its second await, GET /auth/me
handleUpgradePosted ==
  \E r \in proNet :
    /\ r.op = "upgrade"
    /\ srvPlan' = "pro"
    /\ proNet' = (proNet \ {r}) \cup {ProReq(r.rid, "me", "/api/auth/me")}
    /\ lastOp' = "handleUpgradePosted"
    /\ UNCHANGED <<authVars, proForeign, profileMounted, planInfo, isExporting,
                   showAdvancedOptions, isSearching, upgradeLoading, uiVars>>

\* GET /auth/me succeeded: setState({user: {...data, is_pro, plan_type}}),
\* which persist writes to storage; the alert; the finally
handleUpgradeResolved ==
  \E r \in proNet :
    /\ r.op = "me"
    /\ user' = [id |-> user.id, plan_type |-> "pro"]
    /\ storage' = partialize(token, user')
    /\ alert' = "Your 14-day trial has started!"
    /\ upgradeLoading' = FALSE
    /\ proNet' = proNet \ {r}
    /\ lastOp' = "handleUpgradeResolved"
    /\ UNCHANGED <<sessionVars, proForeign, profileMounted, planInfo,
                   isExporting, showAdvancedOptions, isSearching, srvPlan,
                   wentBack>>

\* either request failed: the catch and the finally
handleUpgradeRejected ==
  \E r \in proNet :
    /\ r.op \in {"upgrade", "me"}
    /\ alert' = "Error"
    /\ upgradeLoading' = FALSE
    /\ proNet' = proNet \ {r}
    /\ lastOp' = IF r.op = "upgrade" THEN "handleUpgradeRejected"
                                     ELSE "handleUpgradeMeRejected"
    /\ UNCHANGED <<authVars, proForeign, profileMounted, planInfo, isExporting,
                   showAdvancedOptions, isSearching, srvPlan, wentBack>>

\* the alert's Start Exploring button: router.back()
startExploring ==
  /\ alert = "Your 14-day trial has started!"
  /\ alert' = NoAlert
  /\ wentBack' = TRUE
  /\ lastOp' = "startExploring"
  /\ UNCHANGED <<authVars, proForeign, proVars>>

(***************************** onboarding screen ****************************)
\* onboarding.tsx holds two revisions of OnboardingScreen: the stepper with
\* handleBack and handleComplete, and the one with handleFreeChoice and
\* handleProTrialChoice
Revisions == {"stepper", "choice"}

totalSteps == 5

\* the categories of the personalise step
Categories == {"articles"}

\* a PUT /users/preferences request: the handler that sent it and the
\* route it replaces the screen with on success and on failure
ObReq(rid, op, onOk, onFail) ==
  [rid |-> rid, op |-> op, onOk |-> onOk, onFail |-> onFail]

onbForeign == <<searchVars, queryVars, proVars, csVars, authVars, collStoreVars, collScreenVars,
                itemStoreVars, addVars, detailVars, createdTags, uiVars, srvVars>>

\* the screen is mounted until router.replace has run
onboardingShown == route = "/onboarding"

\* a handleNext without the bound on the last step
handleNextUnbounded ==
  /\ onboardingShown
  /\ currentStep' = currentStep + 1
  /\ lastOp' = "handleNext"
  /\ UNCHANGED <<onbForeign, revision, selectedCategory, obLoading, obNet, route>>

\* handleNext, whichever button invokes it
handleNext ==
  /\ onboardingShown
  /\ currentStep' = IF currentStep < totalSteps - 1
                      THEN currentStep + 1 ELSE currentStep
  /\ lastOp' = "handleNext"
  /\ UNCHANGED <<onbForeign, revision, selectedCategory, obLoading, obNet, route>>

\* handleBack (the stepper revision)
handleBack ==
  /\ onboardingShown /\ revision = "stepper"
  /\ currentStep' = IF currentStep > 0 THEN currentStep - 1 ELSE currentStep
  /\ lastOp' = "handleBack"
  /\ UNCHANGED <<onbForeign, revision, selectedCategory, obLoading, obNet, route>>

\* a category of the personalise step is picked
selectCategory ==
  \E c \in Categories :
    /\ onboardingShown /\ selectedCategory # c
    /\ selectedCategory' = c
    /\ lastOp' = "selectCategory"
    /\ UNCHANGED <<onbForeign, revision, currentStep, obLoading, obNet, route>>

\* the handler up to its await: setIsLoading(true) and the PUT
obSend(op, onOk, onFail) ==
  /\ CanSend(obNet, MaxObInFlight)
  /\ obLoading' = TRUE
  /\ obNet' = obNet \cup {ObReq(FreshRid(obNet), op, onOk, onFail)}

\* handleSkip of the stepper revision: router.replace('/(tabs)/home')
handleSkipToHome ==
  /\ onboardingShown /\ revision = "stepper"
  /\ currentStep > 0 /\ currentStep < 4
  /\ route' = "/(tabs)/home"
  /\ lastOp' = "handleSkipToHome"
  /\ UNCHANGED <<onbForeign, revision, currentStep, selectedCategory,
                 obLoading, obNet>>

\* handleSkip of the choice revision: the next step, or handleFreeChoice
handleSkip ==
  /\ onboardingShown /\ revision = "choice"
  /\ IF currentStep < totalSteps - 1
       THEN /\ currentStep' = currentStep + 1
            /\ UNCHANGED <<obLoading, obNet>>
       ELSE /\ obSend("handleFreeChoice", "/(tabs)/home", "/(tabs)/home")
            /\ UNCHANGED currentStep
  /\ lastOp' = "handleSkip"
  /\ UNCHANGED <<onbForeign, revision, selectedCategory, route>>

\* the last step's Free button (disabled while loading) or its Skip link
handleFreeChoice ==
  /\ onboardingShown /\ revision = "choice"
  /\ currentStep = 4
  /\ obSend("handleFreeChoice", "/(tabs)/home", "/(tabs)/home")
  /\ lastOp' = "handleFreeChoice"
  /\ UNCHANGED <<onbForeign, revision, currentStep, selectedCategory, route>>

\* the last step's Pro Trial button (disabled while loading)
handleProTrialChoice ==
  /\ onboardingShown /\ revision = "choice"
  /\ currentStep = 4 /\ ~obLoading
  /\ obSend("handleProTrialChoice", "/upgrade", "/upgrade")
  /\ lastOp' = "handleProTrialChoice"
  /\ UNCHANGED <<onbForeign, revision, currentStep, selectedCategory, route>>

\* the stepper's last step: Start Free (a Button, disabled while loading)
\* calls handleComplete(false), Upgrade to Pro calls handleComplete(true);
\* the catch replaces the screen with the home tab in both cases
handleComplete ==
  \E upgradeToPro \in BOOLEAN :
    /\ onboardingShown /\ revision = "stepper"
    /\ currentStep = 4
    /\ upgradeToPro \/ ~obLoading
    /\ obSend(IF upgradeToPro THEN "handleComplete(true)"
                              ELSE "handleComplete(false)",
              IF upgradeToPro THEN "/upgrade" ELSE "/(tabs)/home",
              "/(tabs)/home")
    /\ lastOp' = "handleComplete"
    /\ UNCHANGED <<onbForeign, revision, currentStep, selectedCategory, route>>

\* the PUT succeeded: router.replace, then the finally
preferencesResolved ==
  \E r \in obNet :
    /\ route' = r.onOk
    /\ obLoading' = FALSE
    /\ obNet' = obNet \ {r}
    /\ lastOp' = "preferencesResolved"
    /\ UNCHANGED <<onbForeign, revision, currentStep, selectedCategory>>

\* the PUT failed: the catch's router.replace, then the finally
preferencesRejected ==
  \E r \in obNet :
    /\ route' = r.onFail
    /\ obLoading' = FALSE
    /\ obNet' = obNet \ {r}
    /\ lastOp' = "preferencesRejected"
    /\ UNCHANGED <<onbForeign, revision, currentStep, selectedCategory>>

(***************************** initial states ******************************)
\* what an earlier session left on the backend: four collections, and one
\* item that belongs to the first of them
SeedColls == <<Collection(1, <<"W">>), Collection(2, <<"w">>),
               Collection(3, <<"W">>), Collection(4, <<"w">>)>>
SeedItems == <<SavedItem(1, <<(<<"a">>)>>, <<1>>)>>

\* two seeded items in the collection on screen; the first is also in another
SeedMembers == <<SavedItem(1, <<(<<"a">>)>>, <<1, 2>>),
                 SavedItem(2, Empty, <<1>>)>>

\* what the backend holds when the app starts: nothing, or what an earlier
\* session left there (the first n seeded collections); ids of that session
\* are never handed out again
InitServer(n) ==
  /\ \/ srvColls = Empty /\ srvItems = Empty
     \/ srvColls = SubSeq(SeedColls, 1, n) /\ srvItems = SeedItems
  /\ srvNextColl = Len(SeedColls) + 1
  /\ srvNextItem = Len(SeedItems) + 1

\* the stores and screens as constructed
\* the stores and screens as constructed, but for the onboarding revision
InitScreens ==
  /\ collLoading = FALSE /\ collNet = {}
  /\ showModal = FALSE /\ newName = Empty /\ editingId = 0
  /\ isSubmitting = FALSE /\ confirmDelete = 0
  /\ items = Empty /\ itemsLoading = FALSE /\ itemNet = {}
  /\ url = Empty /\ tags = Empty /\ tagInput = Empty /\ addSelected = Empty
  /\ isSaving = FALSE /\ isExtracting = FALSE
  /\ item = NoItem /\ detailLoading = TRUE
  /\ editedTags = Empty /\ selectedCollections = Empty
  /\ aiSummary = Empty /\ extractedIdeas = Empty /\ smartTags = Empty
  /\ actionItems = Empty /\ collectionSuggestion = NoSuggestion
  /\ isGeneratingSummary = FALSE /\ isExtractingIdeas = FALSE
  /\ isGeneratingTags = FALSE /\ isGeneratingActions = FALSE
  /\ detailNet = {} /\ approved = {}
  /\ csItems = Empty /\ csLoading = TRUE /\ deletingItemId = 0
  /\ csNet = {} /\ alertItem = NoItem
  /\ profileMounted = FALSE /\ planInfo = NoPlanInfo /\ isExporting = FALSE
  /\ showAdvancedOptions = FALSE /\ isSearching = FALSE
  /\ upgradeLoading = FALSE /\ proNet = {} /\ srvPlan = user.plan_type
  /\ currentStep = 0 /\ selectedCategory = Null
  /\ obLoading = FALSE /\ obNet = {} /\ route = "/onboarding"
  /\ sortOrder = "newest" /\ platformFilter = Null /\ latestDelivered = NoResponse
  /\ query = Empty /\ results = Empty /\ hasSearched = FALSE
  /\ alert = NoAlert /\ wentBack = FALSE
  /\ createdTags = {}
  /\ lastOp = "init"

\* the stores and screens as constructed
InitStores == InitScreens /\ revision = "choice"

\* a protected screen mounts in a signed-in session: the auth store holds
\* the token and user of a login; nothing in the sources calls setAuthToken,
\* so the api client's authToken is still null
InitSession(us) ==
  /\ user \in us
  /\ token = "t1"
  /\ isAuthenticated = TRUE
  /\ authLoading = FALSE
  /\ hasHydrated = TRUE
  /\ storage = [token |-> token, user |-> user]
  /\ authToken = Null
  /\ isInitializing = FALSE
  /\ effectDeps = <<hasHydrated, token>>
  /\ authNet = {}
  /\ issuedToken = token
  /\ errorMessage = Null

(************************* Collections screen spec *************************)
InitColl == InitSession(Users) /\ InitStores /\ InitServer(1) /\ collections = Empty

NextColl ==
  \/ fetchCollections \/ fetchCollectionsResolved \/ fetchCollectionsRejected
  \/ handleOpenModalNew \/ handleOpenModalEdit \/ setNewName \/ closeModal
  \/ handleSubmit \/ addCollectionResolved \/ updateCollectionResolved
  \/ submitRejected
  \/ handleDelete \/ handleDeleteCancel \/ handleDeleteConfirm
  \/ deleteCollectionResolved \/ deleteCollectionRejected
  \/ dismissAlert
  \/ fetchItems /\ Cardinality(itemNet') <= MaxAddInFlight
  \/ srvAnswerFetchItems \/ srvRejectItems
  \/ fetchItemsResolved \/ fetchItemsRejected

SpecColl == InitColl /\ [][NextColl]_vars

(*********************** collection limit spec *****************************)
\* the Collections screen of a user who creates collections, with the
\* backend already holding one less than the free-plan limit
InitLimit ==
  InitSession(Users) /\ InitStores /\ InitServer(Len(SeedColls)) /\ collections = Empty

NextLimit ==
  \/ fetchCollections \/ fetchCollectionsResolved \/ fetchCollectionsRejected
  \/ handleOpenModalNew \/ setNewName \/ closeModal
  \/ handleSubmit \/ addCollectionResolved \/ submitRejected
  \/ dismissAlert

SpecLimit == InitLimit /\ [][NextLimit]_vars

(***************************** Add-Item screen spec ************************)
\* the screen mounts after the tabs have loaded the collections
InitAdd ==
  InitSession({FreeUser}) /\ InitStores /\ InitServer(1) /\ collections = srvColls

NextAdd ==
  \/ handleExtractMetadata /\ Cardinality(itemNet') <= MaxAddInFlight
  \/ extractMetadataResolved \/ extractMetadataRejected
  \/ handleAddTag \/ handleRemoveTag \/ toggleCollection
  \/ handleSave /\ Cardinality(itemNet') <= MaxAddInFlight
  \/ addItemResolved \/ addItemRejected \/ mountAddItem
  \/ dismissAlert
  \/ fetchItems /\ Cardinality(itemNet') <= MaxAddInFlight
  \/ fetchItemsResolved \/ fetchItemsRejected
  \/ srvAnswerFetchItems \/ srvAnswerAddItem \/ srvAnswerExtract \/ srvRejectItems

SpecAdd == InitAdd /\ [][NextAdd]_vars

(******************************** session spec *****************************)
\* the app starts: nothing is hydrated yet; 'auth-storage' is empty or holds
\* the token and user of an earlier session
InitAuth ==
  /\ user = NoUser /\ token = Null
  /\ isAuthenticated = FALSE /\ authLoading = FALSE /\ hasHydrated = FALSE
  /\ storage \in {partialize(Null, NoUser), partialize("t1", FreeUser)}
  /\ authToken = Null
  /\ isInitializing = TRUE
  /\ effectDeps = <<FALSE, Null>>
  /\ authNet = {}
  /\ issuedToken = Null
  /\ errorMessage = Null
  /\ InitStores /\ InitServer(1) /\ collections = Empty

NextAuth ==
  \/ rehydrate \/ initialize \/ checkAuth \/ checkAuthResolved \/ checkAuthRejected
  \/ login \/ loginResolved \/ loginRejected
  \/ register \/ registerResolved \/ registerRejected
  \/ handleLogout \/ handleLogoutCancel \/ logout
  \/ dismissAlert
  \/ inboxFocus /\ Cardinality(itemNet') <= MaxAddInFlight
  \/ srvAnswerFetchItems \/ srvRejectItems
  \/ fetchItemsResolved \/ fetchItemsRejected

SpecAuth == InitAuth /\ [][NextAuth]_vars

\* React runs a pending effect, and every issued request completes
SpecAuthFair ==
  /\ SpecAuth
  /\ WF_vars(initialize)
  /\ WF_vars(checkAuthResolved \/ checkAuthRejected)

(***************************** item detail spec ****************************)
\* the item detail screen of the seeded item mounts in a signed-in session
InitDetail ==
  /\ InitSession({FreeUser}) /\ InitStores
  /\ srvItems = SeedItems
  /\ srvColls \in {Empty, SubSeq(SeedColls, 1, 1)}
  /\ srvNextColl = Len(SeedColls) + 1
  /\ srvNextItem = Len(SeedItems) + 1
  /\ collections = Empty

\* tags and collections: the suggestions, their approval, the manual edits
NextDetail ==
  \/ mountDetail \/ fetchItemResolved \/ fetchItemRejected
  \/ fetchCollectionsResolved \/ fetchCollectionsRejected
  \/ generateSmartTags \/ generateSmartTagsResolved \/ generateSmartTagsRejected
  \/ getCollectionSuggestion \/ getCollectionSuggestionResolved
  \/ getCollectionSuggestionRejected
  \/ applySmartTag \/ applySmartTagResolved \/ applySmartTagRejected
  \/ approveAll \/ addSuggestedCollection
  \/ detailHandleAddTag \/ detailToggleCollection
  \/ dismissAlert

SpecDetail == InitDetail /\ [][NextDetail]_vars

\* the five generation operations, with Approve All, Add and the manual edits
NextGen ==
  \/ mountDetail \/ fetchItemResolved \/ fetchItemRejected
  \/ fetchCollectionsResolved \/ fetchCollectionsRejected
  \/ generateAISummary \/ generateAISummaryResolved \/ generateAISummaryRejected
  \/ extractIdeas \/ extractIdeasResolved \/ extractIdeasRejected
  \/ generateSmartTags \/ generateSmartTagsResolved \/ generateSmartTagsRejected
  \/ generateActionItems \/ generateActionItemsResolved
  \/ generateActionItemsRejected
  \/ getCollectionSuggestion \/ getCollectionSuggestionResolved
  \/ getCollectionSuggestionRejected
  \/ approveAll \/ addSuggestedCollection
  \/ detailHandleAddTag \/ detailToggleCollection
  \/ dismissAlert

SpecGen == InitDetail /\ [][NextGen]_vars

(********************************* tags spec *******************************)
\* the tag editors of the add-item screen and of the item detail screen
InitTags ==
  /\ InitSession({FreeUser}) /\ InitStores
  /\ srvItems = SeedItems
  /\ srvColls = Empty
  /\ srvNextColl = Len(SeedColls) + 1
  /\ srvNextItem = Len(SeedItems) + 1
  /\ collections = Empty

NextTags ==
  \/ handleAddTag \/ handleRemoveTag
  \/ mountDetail \/ fetchItemResolved \/ fetchItemRejected
  \/ Cardinality(detailNet) < MaxTagInFlight /\ (generateSmartTags \/ applySmartTag)
  \/ generateSmartTagsResolved \/ generateSmartTagsRejected
  \/ applySmartTagResolved \/ applySmartTagRejected
  \/ approveAll
  \/ detailHandleAddTag \/ detailHandleRemoveTag

SpecTags == InitTags /\ [][NextTags]_vars

(********************************* plan spec *******************************)
\* a signed-in free or Pro user on the profile, search and upgrade screens
InitPro ==
  /\ InitSession(Users) /\ InitStores /\ InitServer(1) /\ collections = Empty
  /\ srvItems = Empty

NextPro ==
  \/ profileMount \/ fetchPlanInfoResolved \/ fetchPlanInfoRejected
  \/ handleExport \/ handleExportResolved \/ handleExportRejected
  \/ toggleAdvancedOptions
  \/ performSearch \/ performSearchResolved \/ performSearchRejected
  \/ handleClear
  \/ handleUpgrade \/ handleUpgradePosted \/ handleUpgradeResolved
  \/ handleUpgradeRejected \/ startExploring
  \/ dismissAlert

SpecPro == InitPro /\ [][NextPro]_vars

(********************************* inbox spec ******************************)
\* a signed-in user on the inbox tab; the backend holds two items
InitInbox ==
  /\ InitSession({FreeUser}) /\ InitStores
  /\ srvItems = SeedMembers
  /\ srvColls = SubSeq(SeedColls, 1, 2)
  /\ srvNextColl = Len(SeedColls) + 1
  /\ srvNextItem = Len(SeedMembers) + 1
  /\ collections = Empty

NextInbox ==
  \/ inboxFocus \/ inboxToggleSort \/ inboxSelectPlatform
  \/ srvAnswerFetchItems \/ srvRejectItems
  \/ fetchItemsResolved \/ fetchItemsRejected

SpecInbox == InitInbox /\ [][NextInbox]_vars

(******************************* items store spec **************************)
\* the inbox fetches while the add-item screen saves
NextItems ==
  \/ inboxFocus \/ srvAnswerFetchItems
  \/ fetchItemsResolved \/ fetchItemsRejected
  \/ handleSave \/ srvAnswerAddItem \/ srvRejectItems
  \/ addItemResolved \/ addItemRejected \/ mountAddItem
  \/ dismissAlert

SpecItems == InitAdd /\ [][NextItems]_vars

(********************************* save spec *******************************)
\* the detail screen of the first item, opened before or after the inbox
\* has loaded its list
NextUpdate ==
  \/ inboxFocus /\ Cardinality(itemNet') <= MaxAddInFlight
  \/ srvAnswerFetchItems \/ fetchItemsResolved
  \/ mountDetail \/ fetchItemResolved \/ fetchItemRejected
  \/ fetchCollectionsResolved \/ fetchCollectionsRejected
  \/ detailHandleAddTag \/ detailHandleRemoveTag
  \/ detailHandleSave \/ updateItemResolved \/ updateItemRejected
  \/ dismissAlert

SpecUpdate == InitInbox /\ [][NextUpdate]_vars

(******************************* onboarding spec ****************************)
InitOnb ==
  /\ InitSession({FreeUser}) /\ InitScreens /\ revision \in Revisions
  /\ InitServer(1) /\ collections = Empty

NextOnb ==
  \/ handleNext \/ handleBack \/ selectCategory
  \/ handleSkipToHome \/ handleSkip
  \/ handleFreeChoice \/ handleProTrialChoice \/ handleComplete
  \/ preferencesResolved \/ preferencesRejected

SpecOnb == InitOnb /\ [][NextOnb]_vars

\* every request that was sent is answered
SpecOnbFair ==
  SpecOnb /\ WF_vars(preferencesResolved \/ preferencesRejected)

(**************************** collection screen spec ************************)
\* the collection screen mounts on top of a loaded inbox; the detail screen
\* of the first item can be opened from it
InitCs ==
  /\ InitSession({FreeUser})
  /\ revision = "choice"
  /\ collLoading = FALSE /\ collNet = {}
  /\ showModal = FALSE /\ newName = Empty /\ editingId = 0
  /\ isSubmitting = FALSE /\ confirmDelete = 0
  /\ items = SeedMembers /\ itemsLoading = FALSE /\ itemNet = {}
  /\ url = Empty /\ tags = Empty /\ tagInput = Empty /\ addSelected = Empty
  /\ isSaving = FALSE /\ isExtracting = FALSE
  /\ item = NoItem /\ detailLoading = TRUE
  /\ editedTags = Empty /\ selectedCollections = Empty
  /\ aiSummary = Empty /\ extractedIdeas = Empty /\ smartTags = Empty
  /\ actionItems = Empty /\ collectionSuggestion = NoSuggestion
  /\ isGeneratingSummary = FALSE /\ isExtractingIdeas = FALSE
  /\ isGeneratingTags = FALSE /\ isGeneratingActions = FALSE
  /\ detailNet = {} /\ approved = {}
  /\ csItems = Empty /\ csLoading = TRUE /\ deletingItemId = 0
  /\ csNet = {} /\ alertItem = NoItem
  /\ profileMounted = FALSE /\ planInfo = NoPlanInfo /\ isExporting = FALSE
  /\ showAdvancedOptions = FALSE /\ isSearching = FALSE
  /\ upgradeLoading = FALSE /\ proNet = {} /\ srvPlan = user.plan_type
  /\ currentStep = 0 /\ selectedCategory = Null
  /\ obLoading = FALSE /\ obNet = {} /\ route = "/onboarding"
  /\ sortOrder = "newest" /\ platformFilter = Null /\ latestDelivered = NoResponse
  /\ query = Empty /\ results = Empty /\ hasSearched = FALSE
  /\ alert = NoAlert /\ wentBack = FALSE
  /\ createdTags = {}
  /\ lastOp = "init"
  /\ srvItems = SeedMembers
  /\ srvColls = SubSeq(SeedColls, 1, 2)
  /\ srvNextColl = Len(SeedColls) + 1
  /\ srvNextItem = Len(SeedMembers) + 1
  /\ collections = srvColls

NextCs ==
  \/ csMount \/ csFetchResolved \/ csFetchRejected
  \/ csItemOptions \/ csOptionsCancel
  \/ csHandleDeleteItem \/ csDeleteCancel \/ csDeleteConfirm
  \/ csDeleteResolved \/ csDeleteRejected
  \/ csHandleRemoveFromCollection \/ csRemoveCancel \/ csRemoveConfirm
  \/ csRemoveResolved \/ csRemoveRejected
  \/ mountDetail \/ fetchItemResolved \/ fetchItemRejected
  \/ fetchCollectionsResolved \/ fetchCollectionsRejected
  \/ detailHandleDelete \/ detailDeleteCancel \/ detailDeleteConfirm
  \/ detailDeleteResolved \/ detailDeleteRejected
  \/ dismissAlert

SpecCs == InitCs /\ [][NextCs]_vars

(***************************************************************************)
(* C1.  Deleting a collection does not delete its items: a deleteCollection *)
(* that succeeds for id removes the entries with that id from the          *)
(* collections list, keeps every other entry, and leaves the items store's *)
(* list unchanged.                                                         *)
(***************************************************************************)
DeleteCollectionKeepsItems ==
  [][\A r \in collNet \ collNet' :
       r.op = "delete" /\ lastOp' = "deleteCollectionResolved" =>
         /\ \A c \in Range(collections) : c.id # r.id => c \in Range(collections')
         /\ \A c \in Range(collections') : c.id # r.id /\ c \in Range(collections)
         /\ Len(collections') = Len(collections)
              - Cardinality({i \in DOMAIN collections : collections[i].id = r.id})
         /\ items' = items]_vars

\* a collection was deleted and the item that belonged to it is still there
DeletedCollectionItemKept ==
  /\ lastOp = "deleteCollectionResolved"
  /\ \E i \in DOMAIN items : includes(items[i].collections, 1)
  /\ \A c \in Range(collections) : c.id # 1
  /\ collections # Empty

(***************************************************************************)
(* C2.  Free-plan collection limit is 10: handleOpenModal() opens the       *)
(* create dialog for a free-plan user holding fewer than 10 collections,   *)
(* refuses (limit alert, dialog closed) at 10, and never refuses a pro     *)
(* user.                                                                   *)
(***************************************************************************)
FreeLimitIsTen ==
  lastOp = "handleOpenModalNew" =>
    IF user.plan_type = "pro"
      THEN showModal /\ alert = NoAlert
      ELSE IF Len(collections) < DocumentedFreeLimit
             THEN showModal /\ alert = NoAlert
             ELSE ~showModal /\ alert = "Collection Limit Reached"

(***************************************************************************)
(* C3.  A rejected save is surfaced: when the backend rejects POST /items, *)
(* addItem rethrows and leaves the items list unchanged, and the Add-Item  *)
(* screen shows an error alert, does not navigate back, and resets         *)
(* isSaving to false.                                                      *)
(***************************************************************************)
RejectedSaveSurfaced ==
  [][\A r \in itemNet \ itemNet' :
       r.op = "add" /\ r.st = "fail" =>
         /\ items' = items
         /\ alert' = "Error"
         /\ ~wentBack'
         /\ isSaving' = FALSE]_vars

\* a save was rejected while the list held items: the alert is up, the
\* screen is still there and no longer saving
RejectedSaveSeen ==
  /\ lastOp = "addItemRejected"
  /\ items # Empty
  /\ alert = "Error" /\ ~wentBack /\ ~isSaving

(***************************************************************************)
(* C4.  An item created with tags T is returned with tags T: every item of *)
(* the items list that this run created carries the tag list the Add-Item  *)
(* screen held when its save was pressed, after addItem and after any      *)
(* later fetchItems.                                                       *)
(***************************************************************************)
CreatedTagsRoundTrip ==
  \A c \in createdTags : \A i \in DOMAIN items :
    items[i].id = c.id => items[i].tags = c.tags

\* an item saved with two tags came back with them in a later fetch
CreatedTagsFetched ==
  /\ lastOp = "fetchItemsResolved"
  /\ \E c \in createdTags : \E i \in DOMAIN items :
       /\ items[i].id = c.id
       /\ Len(c.tags) = Cardinality(Range(c.tags))
       /\ Cardinality(Range(c.tags)) > 1
       /\ items[i].tags = c.tags

(***************************************************************************)
(* C5. After login or register succeeds, every request subsequently sent   *)
(* through the shared api client (the items store sends all of its         *)
(* requests through it) carries the Authorization header with the          *)
(* access_token that login/register returned, until logout.                *)
(***************************************************************************)
BearerHeaderAfterLogin ==
  [][issuedToken # Null =>
       \A r \in itemNet' \ itemNet : r.auth = issuedToken]_vars

(***************************************************************************)
(* C6. Protected routes: in every state of the root layout the protected   *)
(* screens are registered only while isAuthenticated is true, and the      *)
(* welcome/login/register screens only while it is false.                  *)
(***************************************************************************)
ProtectedRoutes ==
  /\ RootLayout \cap ProtectedScreens # {} => isAuthenticated
  /\ RootLayout \cap PublicScreens # {} => ~isAuthenticated

\* a login has just succeeded and the layout switched to the protected stack
ProtectedStackAfterLogin ==
  /\ lastOp = "loginResolved"
  /\ isAuthenticated
  /\ RootLayout = ProtectedScreens

(***************************************************************************)
(* C7. AI suggests, user approves: the generation operations of the item   *)
(* detail screen (generateAISummary, extractIdeas, generateSmartTags,      *)
(* generateActionItems, getCollectionSuggestion) never change editedTags   *)
(* or selectedCollections; after the item is loaded those change only      *)
(* through an approval (smart tag tap, Approve All, Add) or a manual edit. *)
(***************************************************************************)
GenerationOps == {"generateAISummary", "extractIdeas", "generateSmartTags",
                  "generateActionItems", "getCollectionSuggestion"}

AISuggestsUserApproves ==
  [][/\ \A r \in (detailNet' \ detailNet) \cup (detailNet \ detailNet') :
          r.op \in GenerationOps =>
            editedTags' = editedTags /\ selectedCollections' = selectedCollections
     /\ editedTags' # editedTags \/ selectedCollections' # selectedCollections =>
          lastOp' \in {"fetchItemResolved", "applySmartTagResolved", "approveAll",
                       "addSuggestedCollection", "detailHandleAddTag",
                       "detailToggleCollection"}]_vars

\* smart tags were just suggested; the item's tags and collections are still
\* the loaded ones
SuggestedNotAdopted ==
  /\ lastOp = "generateSmartTagsResolved"
  /\ smartTags # Empty
  /\ editedTags = item.tags
  /\ selectedCollections = item.collections
  /\ \A i \in DOMAIN smartTags : ~includes(editedTags, smartTags[i].name)

(***************************************************************************)
(* C8. After applySmartTag succeeds for tag t, t is in editedTags and no   *)
(* longer in smartTags, and every tag approved earlier is still in         *)
(* editedTags, also when a second tag is tapped before the first apply     *)
(* request has returned.                                                   *)
(***************************************************************************)
SmartTagAdopted ==
  [][\A r \in detailNet \ detailNet' :
       r.op = "applySmartTag" /\ lastOp' = "applySmartTagResolved" =>
         /\ includes(editedTags', r.tagName)
         /\ ~includes(tagNames(smartTags'), r.tagName)
         /\ \A t \in approved : includes(editedTags', t)]_vars

(***************************************************************************)
(* C9. Whenever the Add button of a collection suggestion is pressed and   *)
(* the 'Added!' confirmation is shown, selectedCollections contains the id *)
(* of a collection whose name is the suggested collection_name.            *)
(***************************************************************************)
SuggestedCollectionAdded ==
  lastOp = "addSuggestedCollection" /\ alert = "Added!" =>
    \E c \in Range(collections) :
      /\ c.name = collectionSuggestion.collection_name
      /\ includes(selectedCollections, c.id)

(***************************************************************************)
(* C10. Whenever an AI-generation request of the item detail screen        *)
(* (ai-summary, extract-ideas, smart-tags, action-items,                   *)
(* suggest-collection) fails, an alert dialog is shown to the user.        *)
(***************************************************************************)
GenerationFailureAlerted ==
  [][\A r \in detailNet \ detailNet' :
       /\ r.op \in GenerationOps
       /\ lastOp' \in {"generateAISummaryRejected", "extractIdeasRejected",
                       "generateSmartTagsRejected", "generateActionItemsRejected",
                       "getCollectionSuggestionRejected"}
       => alert' # NoAlert]_vars

(***************************************************************************)
(* C11. Items are deleted only by explicit user action: DELETE /items/{id} *)
(* is sent only when the user presses the destructive button of the        *)
(* confirmation dialog; Cancel sends nothing; if the DELETE fails the item *)
(* stays in the items list and an error alert is shown.                    *)
(***************************************************************************)
DeleteOnlyAfterConfirm ==
  [][/\ \A r \in csNet' \ csNet :
          r.op = "delete" => alert = "Delete Save" /\ lastOp' = "csDeleteConfirm"
     /\ \A r \in detailNet' \ detailNet :
          r.op = "deleteItem" =>
            alert = "Delete Item" /\ lastOp' = "detailDeleteConfirm"
     /\ lastOp' \in {"csDeleteCancel", "detailDeleteCancel"} =>
          csNet' = csNet /\ detailNet' = detailNet
     /\ \A r \in csNet \ csNet' :
          r.op = "delete" /\ lastOp' = "csDeleteRejected" =>
            items' = items /\ csItems' = csItems /\ alert' = "Error"
     /\ \A r \in detailNet \ detailNet' :
          r.op = "deleteItem" /\ lastOp' = "detailDeleteRejected" =>
            items' = items /\ alert' = "Error"]_vars

\* a DELETE sent from the collection screen has just failed: the error is on
\* screen and the item is still in the store and in the screen's list
FailedDeleteKeepsItem ==
  /\ lastOp = "csDeleteRejected"
  /\ alert = "Error"
  /\ \E i \in DOMAIN items : items[i].id = alertItem.id
  /\ \E i \in DOMAIN csItems : csItems[i].id = alertItem.id

(***************************************************************************)
(* C16. Removing an item from a collection keeps the item: the Remove      *)
(* handler sends a PUT for that item whose collection ids are the item's   *)
(* minus exactly the current collection id, sends no DELETE and leaves the *)
(* items store alone; the item leaves the screen's list only if the update *)
(* succeeds.                                                               *)
(***************************************************************************)
RemoveFromCollectionKeepsItem ==
  [][/\ lastOp' = "csRemoveConfirm" =>
          \A r \in csNet' \ csNet :
            /\ r.op = "put" /\ r.id = alertItem.id
            /\ Range(r.collections) = Range(alertItem.collections) \ {CollectionId}
            /\ Len(r.collections) = Cardinality(Range(r.collections))
     /\ \A r \in (csNet' \ csNet) \cup (csNet \ csNet') :
          r.op = "put" =>
            /\ items' = items
            /\ \A q \in csNet' \ csNet : q.op # "delete"
     /\ \A r \in csNet \ csNet' :
          r.op = "put" /\ csItems' # csItems => lastOp' = "csRemoveResolved"]_vars

\* the update of the item that is in two collections succeeded: the backend
\* keeps its other membership, the store still has it, the screen's list not
RemovedItemStillStored ==
  /\ lastOp = "csRemoveResolved"
  /\ \E i \in DOMAIN srvItems :
       srvItems[i].id = 1 /\ srvItems[i].collections = <<2>>
  /\ \E i \in DOMAIN items : items[i].id = 1
  /\ \A i \in DOMAIN csItems : csItems[i].id # 1

(***************************************************************************)
(* C12. Every operation is idempotent on retry: repeating addCollection    *)
(* (or addItem) with the same arguments after it already succeeded leaves  *)
(* the client list with one entry for that name (that save), not two.      *)
(***************************************************************************)
RetryIsIdempotent ==
  \A i, j \in DOMAIN collections :
    /\ i # j
    /\ collections[i].id > Len(SeedColls)
    /\ collections[j].id > Len(SeedColls)
    => collections[i].name # collections[j].name

(***************************************************************************)
(* C13. Single in-flight request per user action: on the item detail       *)
(* screen a second trigger of the same action (for a smart tag chip: the   *)
(* same chip) while its request is pending issues no second request, so at *)
(* most one request per action is in flight.                               *)
(***************************************************************************)
SingleInFlightPerAction ==
  \A r, q \in detailNet :
    /\ r.op \in {"generateAISummary", "generateSmartTags", "applySmartTag"}
    /\ r.op = q.op /\ r.tagName = q.tagName
    => r = q

(***************************************************************************)
(* C18. A failed login is surfaced and changes no session state: the auth  *)
(* store keeps user, token and isAuthenticated, resets isLoading to false, *)
(* throws an Error carrying the server's detail or 'Login failed', and the *)
(* login screen shows it in an alert without navigating.                   *)
(***************************************************************************)
FailedLoginKeepsSession ==
  [][lastOp' = "loginRejected" =>
       /\ user' = user /\ token' = token
       /\ isAuthenticated' = isAuthenticated
       /\ authLoading' = FALSE
       /\ errorMessage' \in ServerDetails \cup {"Login failed"}
       /\ alert' = "Error"
       /\ RootLayout' = RootLayout /\ wentBack' = wentBack]_vars

\* a login failed without a response: the fallback text is on screen and
\* the login screen is still the one shown
FailedLoginShown ==
  /\ lastOp = "loginRejected"
  /\ alert = "Error" /\ errorMessage = "Login failed"
  /\ ~authLoading /\ ~isAuthenticated /\ token = Null
  /\ "login" \in RootLayout

(***************************************************************************)
(* C19. A stored session is validated with the server: checkAuth with a    *)
(* token ends with isAuthenticated true and the user of the /auth/me       *)
(* response if the request succeeds, and with user, token and              *)
(* isAuthenticated cleared if it fails; with no token it sends no request  *)
(* and sets isAuthenticated false.                                         *)
(***************************************************************************)
StoredSessionValidated ==
  [][/\ lastOp' = "checkAuthResolved" =>
          isAuthenticated' /\ user' \in Users /\ token' = token
     /\ lastOp' = "checkAuthRejected" =>
          user' = NoUser /\ token' = Null /\ ~isAuthenticated'
     /\ lastOp' = "checkAuth" /\ token = Null =>
          authNet' = authNet /\ ~isAuthenticated'
     /\ \A r \in authNet' \ authNet :
          r.op = "me" => token # Null /\ r.auth = token]_vars

\* the stored token was rejected by /auth/me: the session is gone, also
\* from storage, and the public stack is shown
StoredSessionRejected ==
  /\ lastOp = "checkAuthRejected"
  /\ user = NoUser /\ token = Null /\ ~isAuthenticated
  /\ storage = partialize(Null, NoUser)
  /\ "login" \in RootLayout

\* no element occurs twice in the list
noDuplicates(list) ==
  \A i, j \in DOMAIN list : list[i] = list[j] => i = j

(***************************************************************************)
(* C17. An item's tags form a set: after any sequence of handleAddTag,     *)
(* handleRemoveTag, applySmartTag and Approve All on the add-item or the   *)
(* item detail screen, starting from a duplicate-free tag list, the edited *)
(* tag list contains no tag twice, and handleAddTag never adds an empty    *)
(* tag.                                                                    *)
(***************************************************************************)
TagsFormASet ==
  /\ noDuplicates(tags) /\ noDuplicates(editedTags)
  /\ ~includes(tags, Empty) /\ ~includes(editedTags, Empty)

\* both editors hold several tags: on the detail screen a typed tag, an
\* applied suggestion and one adopted by Approve All
SeveralTagsEdited ==
  /\ Len(tags) = 2
  /\ Len(editedTags) = 3
  /\ approved # {}
  /\ lastOp = "approveAll"

(***************************************************************************)
(* C14. Advanced search is Pro only: the search screen requests            *)
(* /api/search/advanced only when the current user is pro; a non-pro user  *)
(* pressing the advanced toggle gets the upgrade prompt,                   *)
(* showAdvancedOptions stays false, and searches go to the basic           *)
(* /api/search endpoint.                                                   *)
(***************************************************************************)
AdvancedSearchProOnly ==
  [][/\ \A r \in proNet' \ proNet :
          /\ r.url = "/api/search/advanced" => isProUser(user)
          /\ r.op = "search" /\ ~isProUser(user) => r.url = "/api/search"
     /\ lastOp' = "toggleAdvancedOptions" /\ ~isProUser(user) =>
          alert' = "Pro Feature" /\ ~showAdvancedOptions /\ ~showAdvancedOptions']_vars

\* a free user has a basic search in flight and has just pressed the
\* advanced toggle: the prompt is up and the options are still off
FreeUserPrompted ==
  /\ lastOp = "toggleAdvancedOptions"
  /\ ~isProUser(user)
  /\ alert = "Pro Feature" /\ ~showAdvancedOptions
  /\ \E r \in proNet : r.op = "search" /\ r.url = "/api/search"

(***************************************************************************)
(* C15. Vault export is Pro only: handleExport sends GET /api/export/vault *)
(* if and only if the user is a Pro user; a free user invoking it gets the *)
(* upgrade prompt and no request is sent, and a Pro user invoking it       *)
(* always has the request sent.                                            *)
(***************************************************************************)
ExportIffPro ==
  [][lastOp' = "handleExport" =>
       IF isProUser(user)
         THEN \E r \in proNet' \ proNet : r.url = "/api/export/vault"
         ELSE proNet' = proNet /\ alert' = "Pro Feature"]_vars

(***************************************************************************)
(* C20. The upgrade flow marks the local user Pro exactly when the upgrade *)
(* took effect: after handleUpgrade the auth store's user is Pro if and    *)
(* only if the POST /api/users/upgrade-pro request succeeded; otherwise    *)
(* the user is unchanged and an error alert is shown; isLoading is false   *)
(* afterwards in both cases.                                               *)
(***************************************************************************)
UpgradeMarksUserPro ==
  [][/\ lastOp' \in {"handleUpgradeResolved", "handleUpgradeMeRejected"} =>
          isProUser(user') /\ ~upgradeLoading'
     /\ lastOp' = "handleUpgradeRejected" =>
          user' = user /\ alert' = "Error" /\ ~upgradeLoading']_vars

(***************************************************************************)
(* C21. The onboarding flow has exactly 5 screens: after any sequence of   *)
(* handleNext, handleBack and handleSkip, currentStep stays within 0..4;   *)
(* handleNext at step 4 and handleBack at step 0 leave it unchanged.       *)
(***************************************************************************)
FiveOnboardingScreens ==
  [][/\ currentStep \in 0..(totalSteps - 1)
     /\ currentStep' \in 0..(totalSteps - 1)
     /\ lastOp' = "handleNext" /\ currentStep = 4 => currentStep' = 4
     /\ lastOp' = "handleBack" /\ currentStep = 0 => currentStep' = 0]_vars

\* handleNext has run on the last screen and the step is still the last
NextOnLastScreen ==
  /\ lastOp = "handleNext" /\ currentStep = totalSteps - 1
  /\ selectedCategory # Null

(***************************************************************************)
(* C22. The end-of-onboarding choice always leaves onboarding: choosing    *)
(* Free eventually navigates to the home tab and choosing Pro Trial        *)
(* eventually navigates to the upgrade screen, whether the preferences     *)
(* request succeeds or fails, and isLoading is false afterwards.           *)
(***************************************************************************)
OnboardingChoiceLeaves ==
  /\ (\E r \in obNet : r.onOk = "/(tabs)/home") ~> (route = "/(tabs)/home")
  /\ (\E r \in obNet : r.onOk = "/upgrade") ~> (route = "/upgrade")
  /\ (obNet # {}) ~> (obNet = {} /\ ~obLoading)

\* C23: in every reachable state of the auth store an authenticated session
\* has a token, whatever the interleaving of login, register, logout and
\* checkAuth, a logout during a pending request included
AuthenticatedHasToken == isAuthenticated => token # Null

\* C27: logout writes only the auth store: user and token become null and
\* isAuthenticated false, while the items store and the collections store
\* keep what they held
LogoutChangesOnlyAuth ==
  [][lastOp' = "logout" =>
       /\ user' = NoUser /\ token' = Null /\ ~isAuthenticated'
       /\ UNCHANGED <<itemStoreVars, sortOrder, platformFilter, collStoreVars>>]_vars

\* signed out with the previous session's items still in the store
ListsSurviveLogout ==
  /\ lastOp = "logout"
  /\ items # Empty
  /\ token = Null /\ ~isAuthenticated

\* C28: once the persisted auth state is rehydrated the root layout
\* eventually leaves its loading state, with no token, with checkAuth
\* succeeding and with checkAuth failing
RootLayoutLeavesLoading == hasHydrated ~> ~isInitializing

\* the stack is rendered after a rehydrated token was rejected
LoadedAfterRejectedToken ==
  /\ lastOp = "checkAuthRejected"
  /\ hasHydrated /\ ~isInitializing
  /\ "login" \in RootLayout

\* C25: when fetchItems calls overlap, then once all of them have completed
\* the items list is the response to the most recently issued request, the
\* one that matches the current sortOrder and platformFilter
LatestFetchWins ==
  (/\ ~(\E r \in itemNet : r.op = "fetch")
   /\ latestDelivered.ok) =>
     /\ items = latestDelivered.data
     /\ items = srvQuery(srvItems, [sort |-> sortOrder,
                                    platform |-> platformFilter])

\* C30: isLoading is true exactly while a fetchItems request is in flight,
\* and so never false while another fetchItems request is still pending
LoadingWhileFetching ==
  itemsLoading <=> (\E r \in itemNet : r.op = "fetch")

\* C29: updateItem keeps the shape of the items list: on success the list
\* has the same length and order and differs only at the entry with the
\* updated id, which becomes the server's response, and nothing changes if
\* the id is not in the list; on failure the list is unchanged and the
\* rethrown error reaches handleSave's catch
UpdateKeepsShape ==
  [][/\ lastOp' = "updateItemResolved" =>
          /\ Len(items') = Len(items)
          /\ \A i \in DOMAIN items :
               items'[i] = IF items[i].id = item.id
                             THEN srvFindItem(srvItems', item.id)[1]
                             ELSE items[i]
          /\ (\A i \in DOMAIN items : items[i].id # item.id) => items' = items
     /\ lastOp' = "updateItemRejected" =>
          items' = items /\ alert' = "Error"]_vars

\* an edited item was saved and replaced in place, behind another entry
UpdatedInPlace ==
  /\ lastOp = "updateItemResolved"
  /\ Len(items) = 2
  /\ items[1].id = item.id /\ items[1] # item
  /\ items[2].id # item.id

\* C24: the items list never holds two entries with the same id, whatever
\* the interleaving of the store's requests and their responses
UniqueItemIds ==
  \A i, j \in DOMAIN items : i # j => items[i].id # items[j].id

\* C26: a query shorter than 2 characters never produces results:
\* performSearch sends no request for it and empties the list, and while the
\* query is cleared results is empty and hasSearched is false, also when a
\* search request was pending at the time of handleClear
ShortQueryHasNoResults ==
  [][/\ (lastOp' = "performSearch" /\ Len(query') < 2) =>
          proNet' = proNet /\ results' = Empty /\ ~hasSearched'
     /\ query' = Empty => (results' = Empty /\ ~hasSearched')]_vars

=============================================================================
